---- MODULE Spec2Model ----
(***************************************************************************)
(* Voxelised Marching Cubes reconstruction engine: the WebGPU orchestrator *)
(* (MeshReconstructor), its compute passes (signed fixed-point shaders)    *)
(* and the sequential reference implementation (CPUMarchingCubes).         *)
(*                                                                         *)
(* Number representation.  Floating point is modelled in fixed point:      *)
(*   - world lengths and splatRadius are integers in units of 1/LenDen;    *)
(*   - densities and weights are integers in units of 1/FP_SCALE;          *)
(*   - colour components are integers in units of 1/COLOR_SCALE;           *)
(*   - grid-space positions are truncated to 1/GridFP of a cell;           *)
(*   - the interpolation parameter t is truncated to 1/VertFP;             *)
(*   - vertex positions produced on an N^3 grid are integers in units of   *)
(*     1/(LenDen*N*VertFP), which represents gridMin + k*cellSize exactly; *)
(*   - exp(-d^2/(2 sigma^2)) is tabulated (GaussTable) over d^2/r^2;       *)
(*   - normals keep the direction of the face cross product only;          *)
(*   - Infinity and NaN are two reserved integers: an empty cloud leaves   *)
(*     the bounding box at +/-Infinity and grid arithmetic on it is NaN.   *)
(***************************************************************************)
EXTENDS Integers, Sequences, FiniteSets, TLC

\* ------------------------------------------------------------------ bounds
MaxGridRes == 3
LenDen == 2
GridFP == 8
VertFP == 10

\* ------------------------------------------------------- program constants
FP_SCALE == 10000
COLOR_SCALE == 1000
bytesPerVertex == 48
DefaultGridSize == 64
Infinity == 2 ^ 30
NaN == 0 - Infinity - 1
NaNVec == <<NaN, NaN, NaN>>
Gray == COLOR_SCALE \div 2
null == [present |-> FALSE, rgb |-> <<>>]

\* ---------------------------------------------------------- lookup tables
\* ====================================================================
\* Marching Cubes lookup tables (CPUMarchingCubes).  The device shader
\* indexes a flat 256 x 16 copy of the same classical tables, terminated
\* by -1 (triTable[cubeIndex * 16 + i]); both variants read these.
edgeTable ==
  <<0, 265, 515, 778, 1030, 1295, 1541, 1804, 2060, 2309, 2575, 2822, 3082, 3331, 3593, 3840,
    400, 153, 915, 666, 1430, 1183, 1941, 1692, 2460, 2197, 2975, 2710, 3482, 3219, 3993, 3728,
    560, 825, 51, 314, 1590, 1855, 1077, 1340, 2620, 2869, 2111, 2358, 3642, 3891, 3129, 3376,
    928, 681, 419, 170, 1958, 1711, 1445, 1196, 2988, 2725, 2479, 2214, 4010, 3747, 3497, 3232,
    1120, 1385, 1635, 1898, 102, 367, 613, 876, 3180, 3429, 3695, 3942, 2154, 2403, 2665, 2912,
    1520, 1273, 2035, 1786, 502, 255, 1013, 764, 3580, 3317, 4095, 3830, 2554, 2291, 3065, 2800,
    1616, 1881, 1107, 1370, 598, 863, 85, 348, 3676, 3925, 3167, 3414, 2650, 2899, 2137, 2384,
    1984, 1737, 1475, 1226, 966, 719, 453, 204, 4044, 3781, 3535, 3270, 3018, 2755, 2505, 2240,
    2240, 2505, 2755, 3018, 3270, 3535, 3781, 4044, 204, 453, 719, 966, 1226, 1475, 1737, 1984,
    2384, 2137, 2899, 2650, 3414, 3167, 3925, 3676, 348, 85, 863, 598, 1370, 1107, 1881, 1616,
    2800, 3065, 2291, 2554, 3830, 4095, 3317, 3580, 764, 1013, 255, 502, 1786, 2035, 1273, 1520,
    2912, 2665, 2403, 2154, 3942, 3695, 3429, 3180, 876, 613, 367, 102, 1898, 1635, 1385, 1120,
    3232, 3497, 3747, 4010, 2214, 2479, 2725, 2988, 1196, 1445, 1711, 1958, 170, 419, 681, 928,
    3376, 3129, 3891, 3642, 2358, 2111, 2869, 2620, 1340, 1077, 1855, 1590, 314, 51, 825, 560,
    3728, 3993, 3219, 3482, 2710, 2975, 2197, 2460, 1692, 1941, 1183, 1430, 666, 915, 153, 400,
    3840, 3593, 3331, 3082, 2822, 2575, 2309, 2060, 1804, 1541, 1295, 1030, 778, 515, 265, 0>>

triTable ==
  <<<<-1>>, <<0, 8, 3>>, <<0, 1, 9>>, <<1, 8, 3, 9, 8, 1>>, <<1, 2, 10>>, <<0, 8, 3, 1, 2, 10>>,
    <<9, 2, 10, 0, 2, 9>>, <<2, 8, 3, 2, 10, 8, 10, 9, 8>>, <<3, 11, 2>>, <<0, 11, 2, 8, 11, 0>>,
    <<1, 9, 0, 2, 3, 11>>, <<1, 11, 2, 1, 9, 11, 9, 8, 11>>, <<3, 10, 1, 11, 10, 3>>,
    <<0, 10, 1, 0, 8, 10, 8, 11, 10>>, <<3, 9, 0, 3, 11, 9, 11, 10, 9>>, <<9, 8, 10, 10, 8, 11>>,
    <<4, 7, 8>>, <<4, 3, 0, 7, 3, 4>>, <<0, 1, 9, 8, 4, 7>>, <<4, 1, 9, 4, 7, 1, 7, 3, 1>>,
    <<1, 2, 10, 8, 4, 7>>, <<3, 4, 7, 3, 0, 4, 1, 2, 10>>, <<9, 2, 10, 9, 0, 2, 8, 4, 7>>,
    <<2, 10, 9, 2, 9, 7, 2, 7, 3, 7, 9, 4>>, <<8, 4, 7, 3, 11, 2>>, <<11, 4, 7, 11, 2, 4, 2, 0, 4>>,
    <<9, 0, 1, 8, 4, 7, 2, 3, 11>>, <<4, 7, 11, 9, 4, 11, 9, 11, 2, 9, 2, 1>>,
    <<3, 10, 1, 3, 11, 10, 7, 8, 4>>, <<1, 11, 10, 1, 4, 11, 1, 0, 4, 7, 11, 4>>,
    <<4, 7, 8, 9, 0, 11, 9, 11, 10, 11, 0, 3>>, <<4, 7, 11, 4, 11, 9, 9, 11, 10>>, <<9, 5, 4>>,
    <<9, 5, 4, 0, 8, 3>>, <<0, 5, 4, 1, 5, 0>>, <<8, 5, 4, 8, 3, 5, 3, 1, 5>>, <<1, 2, 10, 9, 5, 4>>,
    <<3, 0, 8, 1, 2, 10, 4, 9, 5>>, <<5, 2, 10, 5, 4, 2, 4, 0, 2>>,
    <<2, 10, 5, 3, 2, 5, 3, 5, 4, 3, 4, 8>>, <<9, 5, 4, 2, 3, 11>>, <<0, 11, 2, 0, 8, 11, 4, 9, 5>>,
    <<0, 5, 4, 0, 1, 5, 2, 3, 11>>, <<2, 1, 5, 2, 5, 8, 2, 8, 11, 4, 8, 5>>,
    <<10, 3, 11, 10, 1, 3, 9, 5, 4>>, <<4, 9, 5, 0, 8, 1, 8, 10, 1, 8, 11, 10>>,
    <<5, 4, 0, 5, 0, 11, 5, 11, 10, 11, 0, 3>>, <<5, 4, 8, 5, 8, 10, 10, 8, 11>>, <<9, 7, 8, 5, 7, 9>>,
    <<9, 3, 0, 9, 5, 3, 5, 7, 3>>, <<0, 7, 8, 0, 1, 7, 1, 5, 7>>, <<1, 5, 3, 3, 5, 7>>,
    <<9, 7, 8, 9, 5, 7, 10, 1, 2>>, <<10, 1, 2, 9, 5, 0, 5, 3, 0, 5, 7, 3>>,
    <<8, 0, 2, 8, 2, 5, 8, 5, 7, 10, 5, 2>>, <<2, 10, 5, 2, 5, 3, 3, 5, 7>>,
    <<7, 9, 5, 7, 8, 9, 3, 11, 2>>, <<9, 5, 7, 9, 7, 2, 9, 2, 0, 2, 7, 11>>,
    <<2, 3, 11, 0, 1, 8, 1, 7, 8, 1, 5, 7>>, <<11, 2, 1, 11, 1, 7, 7, 1, 5>>,
    <<9, 5, 8, 8, 5, 7, 10, 1, 3, 10, 3, 11>>, <<5, 7, 0, 5, 0, 9, 7, 11, 0, 1, 0, 10, 11, 10, 0>>,
    <<11, 10, 0, 11, 0, 3, 10, 5, 0, 8, 0, 7, 5, 7, 0>>, <<11, 10, 5, 7, 11, 5>>, <<10, 6, 5>>,
    <<0, 8, 3, 5, 10, 6>>, <<9, 0, 1, 5, 10, 6>>, <<1, 8, 3, 1, 9, 8, 5, 10, 6>>, <<1, 6, 5, 2, 6, 1>>,
    <<1, 6, 5, 1, 2, 6, 3, 0, 8>>, <<9, 6, 5, 9, 0, 6, 0, 2, 6>>, <<5, 9, 8, 5, 8, 2, 5, 2, 6, 3, 2, 8>>,
    <<2, 3, 11, 10, 6, 5>>, <<11, 0, 8, 11, 2, 0, 10, 6, 5>>, <<0, 1, 9, 2, 3, 11, 5, 10, 6>>,
    <<5, 10, 6, 1, 9, 2, 9, 11, 2, 9, 8, 11>>, <<6, 3, 11, 6, 5, 3, 5, 1, 3>>,
    <<0, 8, 11, 0, 11, 5, 0, 5, 1, 5, 11, 6>>, <<3, 11, 6, 0, 3, 6, 0, 6, 5, 0, 5, 9>>,
    <<6, 5, 9, 6, 9, 11, 11, 9, 8>>, <<5, 10, 6, 4, 7, 8>>, <<4, 3, 0, 4, 7, 3, 6, 5, 10>>,
    <<1, 9, 0, 5, 10, 6, 8, 4, 7>>, <<10, 6, 5, 1, 9, 7, 1, 7, 3, 7, 9, 4>>,
    <<6, 1, 2, 6, 5, 1, 4, 7, 8>>, <<1, 2, 5, 5, 2, 6, 3, 0, 4, 3, 4, 7>>,
    <<8, 4, 7, 9, 0, 5, 0, 6, 5, 0, 2, 6>>, <<7, 3, 9, 7, 9, 4, 3, 2, 9, 5, 9, 6, 2, 6, 9>>,
    <<3, 11, 2, 7, 8, 4, 10, 6, 5>>, <<5, 10, 6, 4, 7, 2, 4, 2, 0, 2, 7, 11>>,
    <<0, 1, 9, 4, 7, 8, 2, 3, 11, 5, 10, 6>>, <<9, 2, 1, 9, 11, 2, 9, 4, 11, 7, 11, 4, 5, 10, 6>>,
    <<8, 4, 7, 3, 11, 5, 3, 5, 1, 5, 11, 6>>, <<5, 1, 11, 5, 11, 6, 1, 0, 11, 7, 11, 4, 0, 4, 11>>,
    <<0, 5, 9, 0, 6, 5, 0, 3, 6, 11, 6, 3, 8, 4, 7>>, <<6, 5, 9, 6, 9, 11, 4, 7, 9, 7, 11, 9>>,
    <<10, 4, 9, 6, 4, 10>>, <<4, 10, 6, 4, 9, 10, 0, 8, 3>>, <<10, 0, 1, 10, 6, 0, 6, 4, 0>>,
    <<8, 3, 1, 8, 1, 6, 8, 6, 4, 6, 1, 10>>, <<1, 4, 9, 1, 2, 4, 2, 6, 4>>,
    <<3, 0, 8, 1, 2, 9, 2, 4, 9, 2, 6, 4>>, <<0, 2, 4, 4, 2, 6>>, <<8, 3, 2, 8, 2, 4, 4, 2, 6>>,
    <<10, 4, 9, 10, 6, 4, 11, 2, 3>>, <<0, 8, 2, 2, 8, 11, 4, 9, 10, 4, 10, 6>>,
    <<3, 11, 2, 0, 1, 6, 0, 6, 4, 6, 1, 10>>, <<6, 4, 1, 6, 1, 10, 4, 8, 1, 2, 1, 11, 8, 11, 1>>,
    <<9, 6, 4, 9, 3, 6, 9, 1, 3, 11, 6, 3>>, <<8, 11, 1, 8, 1, 0, 11, 6, 1, 9, 1, 4, 6, 4, 1>>,
    <<3, 11, 6, 3, 6, 0, 0, 6, 4>>, <<6, 4, 8, 11, 6, 8>>, <<7, 10, 6, 7, 8, 10, 8, 9, 10>>,
    <<0, 7, 3, 0, 10, 7, 0, 9, 10, 6, 7, 10>>, <<10, 6, 7, 1, 10, 7, 1, 7, 8, 1, 8, 0>>,
    <<10, 6, 7, 10, 7, 1, 1, 7, 3>>, <<1, 2, 6, 1, 6, 8, 1, 8, 9, 8, 6, 7>>,
    <<2, 6, 9, 2, 9, 1, 6, 7, 9, 0, 9, 3, 7, 3, 9>>, <<7, 8, 0, 7, 0, 6, 6, 0, 2>>, <<7, 3, 2, 6, 7, 2>>,
    <<2, 3, 11, 10, 6, 8, 10, 8, 9, 8, 6, 7>>, <<2, 0, 7, 2, 7, 11, 0, 9, 7, 6, 7, 10, 9, 10, 7>>,
    <<1, 8, 0, 1, 7, 8, 1, 10, 7, 6, 7, 10, 2, 3, 11>>, <<11, 2, 1, 11, 1, 7, 10, 6, 1, 6, 7, 1>>,
    <<8, 9, 6, 8, 6, 7, 9, 1, 6, 11, 6, 3, 1, 3, 6>>, <<0, 9, 1, 11, 6, 7>>,
    <<7, 8, 0, 7, 0, 6, 3, 11, 0, 11, 6, 0>>, <<7, 11, 6>>, <<7, 6, 11>>, <<3, 0, 8, 11, 7, 6>>,
    <<0, 1, 9, 11, 7, 6>>, <<8, 1, 9, 8, 3, 1, 11, 7, 6>>, <<10, 1, 2, 6, 11, 7>>,
    <<1, 2, 10, 3, 0, 8, 6, 11, 7>>, <<2, 9, 0, 2, 10, 9, 6, 11, 7>>,
    <<6, 11, 7, 2, 10, 3, 10, 8, 3, 10, 9, 8>>, <<7, 2, 3, 6, 2, 7>>, <<7, 0, 8, 7, 6, 0, 6, 2, 0>>,
    <<2, 7, 6, 2, 3, 7, 0, 1, 9>>, <<1, 6, 2, 1, 8, 6, 1, 9, 8, 8, 7, 6>>,
    <<10, 7, 6, 10, 1, 7, 1, 3, 7>>, <<10, 7, 6, 1, 7, 10, 1, 8, 7, 1, 0, 8>>,
    <<0, 3, 7, 0, 7, 10, 0, 10, 9, 6, 10, 7>>, <<7, 6, 10, 7, 10, 8, 8, 10, 9>>, <<6, 8, 4, 11, 8, 6>>,
    <<3, 6, 11, 3, 0, 6, 0, 4, 6>>, <<8, 6, 11, 8, 4, 6, 9, 0, 1>>,
    <<9, 4, 6, 9, 6, 3, 9, 3, 1, 11, 3, 6>>, <<6, 8, 4, 6, 11, 8, 2, 10, 1>>,
    <<1, 2, 10, 3, 0, 11, 0, 6, 11, 0, 4, 6>>, <<4, 11, 8, 4, 6, 11, 0, 2, 9, 2, 10, 9>>,
    <<10, 9, 3, 10, 3, 2, 9, 4, 3, 11, 3, 6, 4, 6, 3>>, <<8, 2, 3, 8, 4, 2, 4, 6, 2>>,
    <<0, 4, 2, 4, 6, 2>>, <<1, 9, 0, 2, 3, 4, 2, 4, 6, 4, 3, 8>>, <<1, 9, 4, 1, 4, 2, 2, 4, 6>>,
    <<8, 1, 3, 8, 6, 1, 8, 4, 6, 6, 10, 1>>, <<10, 1, 0, 10, 0, 6, 6, 0, 4>>,
    <<4, 6, 3, 4, 3, 8, 6, 10, 3, 0, 3, 9, 10, 9, 3>>, <<10, 9, 4, 6, 10, 4>>, <<4, 9, 5, 7, 6, 11>>,
    <<0, 8, 3, 4, 9, 5, 11, 7, 6>>, <<5, 0, 1, 5, 4, 0, 7, 6, 11>>,
    <<11, 7, 6, 8, 3, 4, 3, 5, 4, 3, 1, 5>>, <<9, 5, 4, 10, 1, 2, 7, 6, 11>>,
    <<6, 11, 7, 1, 2, 10, 0, 8, 3, 4, 9, 5>>, <<7, 6, 11, 5, 4, 10, 4, 2, 10, 4, 0, 2>>,
    <<3, 4, 8, 3, 5, 4, 3, 2, 5, 10, 5, 2, 11, 7, 6>>, <<7, 2, 3, 7, 6, 2, 5, 4, 9>>,
    <<9, 5, 4, 0, 8, 6, 0, 6, 2, 6, 8, 7>>, <<3, 6, 2, 3, 7, 6, 1, 5, 0, 5, 4, 0>>,
    <<6, 2, 8, 6, 8, 7, 2, 1, 8, 4, 8, 5, 1, 5, 8>>, <<9, 5, 4, 10, 1, 6, 1, 7, 6, 1, 3, 7>>,
    <<1, 6, 10, 1, 7, 6, 1, 0, 7, 8, 7, 0, 9, 5, 4>>,
    <<4, 0, 10, 4, 10, 5, 0, 3, 10, 6, 10, 7, 3, 7, 10>>, <<7, 6, 10, 7, 10, 8, 5, 4, 10, 4, 8, 10>>,
    <<6, 9, 5, 6, 11, 9, 11, 8, 9>>, <<3, 6, 11, 0, 6, 3, 0, 5, 6, 0, 9, 5>>,
    <<0, 11, 8, 0, 5, 11, 0, 1, 5, 5, 6, 11>>, <<6, 11, 3, 6, 3, 5, 5, 3, 1>>,
    <<1, 2, 10, 9, 5, 11, 9, 11, 8, 11, 5, 6>>, <<0, 11, 3, 0, 6, 11, 0, 9, 6, 5, 6, 9, 1, 2, 10>>,
    <<11, 8, 5, 11, 5, 6, 8, 0, 5, 10, 5, 2, 0, 2, 5>>, <<6, 11, 3, 6, 3, 5, 2, 10, 3, 10, 5, 3>>,
    <<5, 8, 9, 5, 2, 8, 5, 6, 2, 3, 8, 2>>, <<9, 5, 6, 9, 6, 0, 0, 6, 2>>,
    <<1, 5, 8, 1, 8, 0, 5, 6, 8, 3, 8, 2, 6, 2, 8>>, <<1, 5, 6, 2, 1, 6>>,
    <<1, 3, 6, 1, 6, 10, 3, 8, 6, 5, 6, 9, 8, 9, 6>>, <<10, 1, 0, 10, 0, 6, 9, 5, 0, 5, 6, 0>>,
    <<0, 3, 8, 5, 6, 10>>, <<10, 5, 6>>, <<11, 5, 10, 7, 5, 11>>, <<11, 5, 10, 11, 7, 5, 8, 3, 0>>,
    <<5, 11, 7, 5, 10, 11, 1, 9, 0>>, <<10, 7, 5, 10, 11, 7, 9, 8, 1, 8, 3, 1>>,
    <<11, 1, 2, 11, 7, 1, 7, 5, 1>>, <<0, 8, 3, 1, 2, 7, 1, 7, 5, 7, 2, 11>>,
    <<9, 7, 5, 9, 2, 7, 9, 0, 2, 2, 11, 7>>, <<7, 5, 2, 7, 2, 11, 5, 9, 2, 3, 2, 8, 9, 8, 2>>,
    <<2, 5, 10, 2, 3, 5, 3, 7, 5>>, <<8, 2, 0, 8, 5, 2, 8, 7, 5, 10, 2, 5>>,
    <<9, 0, 1, 5, 10, 3, 5, 3, 7, 3, 10, 2>>, <<9, 8, 2, 9, 2, 1, 8, 7, 2, 10, 2, 5, 7, 5, 2>>,
    <<1, 3, 5, 3, 7, 5>>, <<0, 8, 7, 0, 7, 1, 1, 7, 5>>, <<9, 0, 3, 9, 3, 5, 5, 3, 7>>,
    <<9, 8, 7, 5, 9, 7>>, <<5, 8, 4, 5, 10, 8, 10, 11, 8>>, <<5, 0, 4, 5, 11, 0, 5, 10, 11, 11, 3, 0>>,
    <<0, 1, 9, 8, 4, 10, 8, 10, 11, 10, 4, 5>>, <<10, 11, 4, 10, 4, 5, 11, 3, 4, 9, 4, 1, 3, 1, 4>>,
    <<2, 5, 1, 2, 8, 5, 2, 11, 8, 4, 5, 8>>, <<0, 4, 11, 0, 11, 3, 4, 5, 11, 2, 11, 1, 5, 1, 11>>,
    <<0, 2, 5, 0, 5, 9, 2, 11, 5, 4, 5, 8, 11, 8, 5>>, <<9, 4, 5, 2, 11, 3>>,
    <<2, 5, 10, 3, 5, 2, 3, 4, 5, 3, 8, 4>>, <<5, 10, 2, 5, 2, 4, 4, 2, 0>>,
    <<3, 10, 2, 3, 5, 10, 3, 8, 5, 4, 5, 8, 0, 1, 9>>, <<5, 10, 2, 5, 2, 4, 1, 9, 2, 9, 4, 2>>,
    <<8, 4, 5, 8, 5, 3, 3, 5, 1>>, <<0, 4, 5, 1, 0, 5>>, <<8, 4, 5, 8, 5, 3, 9, 0, 5, 0, 3, 5>>,
    <<9, 4, 5>>, <<4, 11, 7, 4, 9, 11, 9, 10, 11>>, <<0, 8, 3, 4, 9, 7, 9, 11, 7, 9, 10, 11>>,
    <<1, 10, 11, 1, 11, 4, 1, 4, 0, 7, 4, 11>>, <<3, 1, 4, 3, 4, 8, 1, 10, 4, 7, 4, 11, 10, 11, 4>>,
    <<4, 11, 7, 9, 11, 4, 9, 2, 11, 9, 1, 2>>, <<9, 7, 4, 9, 11, 7, 9, 1, 11, 2, 11, 1, 0, 8, 3>>,
    <<11, 7, 4, 11, 4, 2, 2, 4, 0>>, <<11, 7, 4, 11, 4, 2, 8, 3, 4, 3, 2, 4>>,
    <<2, 9, 10, 2, 7, 9, 2, 3, 7, 7, 4, 9>>, <<9, 10, 7, 9, 7, 4, 10, 2, 7, 8, 7, 0, 2, 0, 7>>,
    <<3, 7, 10, 3, 10, 2, 7, 4, 10, 1, 10, 0, 4, 0, 10>>, <<1, 10, 2, 8, 7, 4>>,
    <<4, 9, 1, 4, 1, 7, 7, 1, 3>>, <<4, 9, 1, 4, 1, 7, 0, 8, 1, 8, 7, 1>>, <<4, 0, 3, 7, 4, 3>>,
    <<4, 8, 7>>, <<9, 10, 8, 10, 11, 8>>, <<3, 0, 9, 3, 9, 11, 11, 9, 10>>,
    <<0, 1, 10, 0, 10, 8, 8, 10, 11>>, <<3, 1, 10, 11, 3, 10>>, <<1, 2, 11, 1, 11, 9, 9, 11, 8>>,
    <<3, 0, 9, 3, 9, 11, 1, 2, 9, 2, 11, 9>>, <<0, 2, 11, 8, 0, 11>>, <<3, 2, 11>>,
    <<2, 3, 8, 2, 8, 10, 10, 8, 9>>, <<9, 10, 2, 0, 9, 2>>, <<2, 3, 8, 2, 8, 10, 0, 1, 8, 1, 10, 8>>,
    <<1, 10, 2>>, <<1, 3, 8, 9, 1, 8>>, <<0, 9, 1>>, <<0, 3, 8>>, <<>>>>

edgeVertices ==
  <<<<0, 1>>, <<1, 2>>, <<2, 3>>, <<3, 0>>, <<4, 5>>, <<5, 6>>, <<6, 7>>, <<7, 4>>, <<0, 4>>, <<1, 5>>, <<2, 6>>, <<3, 7>>>>

\* corner winding order of a cell
CornerOffsets ==
  << <<0, 0, 0>>, <<1, 0, 0>>, <<1, 1, 0>>, <<0, 1, 0>>,
     <<0, 0, 1>>, <<1, 0, 1>>, <<1, 1, 1>>, <<0, 1, 1>> >>

\* 10000 * exp(-2u) at u = 0, 1/8, ..., 1  (u = dist^2 / splatRadius^2)
GaussTable == <<10000, 7788, 6065, 4724, 3679, 2865, 2231, 1738, 1353>>

\* ------------------------------------------------------------ arithmetic
\* a filled array: every element computed once
Array(f) == f @@ <<>>

Min2(a, b) == IF a <= b THEN a ELSE b

Max2(a, b) == IF a >= b THEN a ELSE b

Abs(a) == IF a < 0 THEN -a ELSE a

\* IEEE addition/subtraction with the infinities absorbing
FAdd(a, b) == IF a >= Infinity THEN Infinity ELSE IF a <= -Infinity THEN -Infinity ELSE a + b

FSub(a, b) == FAdd(a, -b)

RECURSIVE SumFrom(_, _)
SumFrom(s, i) == IF i > Len(s) THEN 0 ELSE s[i] + SumFrom(s, i + 1)

SeqSum(s) == LET a == Array(s) IN SumFrom(a, 1)

RECURSIVE FlattenFrom(_, _)
FlattenFrom(ss, i) == IF i > Len(ss) THEN <<>> ELSE ss[i] \o FlattenFrom(ss, i + 1)

Flatten(ss) == LET a == Array(ss) IN FlattenFrom(a, 1)

Pow2(i) == 2 ^ i

BitSet(mask, e) == (mask \div Pow2(e)) % 2 = 1

\* ---------------------------------------------------------------- inputs
GridResolutions == {2, MaxGridRes}

\* parameter settings of the UI sliders: isoValue 0.5, -0.1, 0.1 in 1/FP_SCALE,
\* splatRadius 1.5 and 0.5 in 1/LenDen
DefaultIsoValue == FP_SCALE \div 2

DefaultSplatRadius == (3 * LenDen) \div 2

ParamSettings ==
  { [isoValue |-> DefaultIsoValue, splatRadius |-> DefaultSplatRadius],
    [isoValue |-> -(FP_SCALE \div 10), splatRadius |-> LenDen \div 2],
    [isoValue |-> FP_SCALE \div 10, splatRadius |-> LenDen \div 2] }

\* point clouds handed to the engine: positions, optional colours
Rgb(seq) == [present |-> TRUE, rgb |-> seq]

\* the corners and face centres of a cube: every second site of a 3^3 lattice
Lattice ==
  << <<0, 0, 0>>, <<8, 0, 0>>, <<0, 8, 0>>, <<8, 8, 0>>,
     <<0, 0, 8>>, <<8, 0, 8>>, <<0, 8, 8>>, <<8, 8, 8>>,
     <<4, 4, 0>>, <<4, 0, 4>>, <<0, 4, 4>>, <<8, 4, 4>>, <<4, 8, 4>>, <<4, 4, 8>> >>

Clouds ==
  { [positions |-> <<>>, colors |-> null],
    [positions |-> Lattice, colors |-> null],
    [positions |-> << <<0, 0, 0>> >>, colors |-> Rgb(<< <<1000, 0, 200>> >>)],
    [positions |-> << <<0, 0, 0>>, <<8, 0, 0>> >>,
     colors |-> Rgb(<< <<1000, 0, 0>>, <<0, 0, 1000>> >>)] }

Count(cloud) == Len(cloud.positions)

\* ---------------------------------------------------------- bounding box
RECURSIVE AxisMin(_, _, _)
AxisMin(positions, a, i) ==
  IF i > Len(positions) THEN Infinity
  ELSE Min2(positions[i][a], AxisMin(positions, a, i + 1))

RECURSIVE AxisMax(_, _, _)
AxisMax(positions, a, i) ==
  IF i > Len(positions) THEN -Infinity
  ELSE Max2(positions[i][a], AxisMax(positions, a, i + 1))

\* gridMin / gridMax: the AABB of the points padded by splatRadius * 2
PaddedMin(positions, splatRadius) ==
  LET padding == splatRadius * 2
  IN  Array([a \in 1..3 |-> FSub(AxisMin(positions, a, 1), padding)])

PaddedMax(positions, splatRadius) ==
  LET padding == splatRadius * 2
  IN  Array([a \in 1..3 |-> FAdd(AxisMax(positions, a, 1), padding)])

\* ------------------------------------------------------------- voxelizer
GridCount(N) == N * N * N

getIndex(c, N) == c[1] * N * N + c[2] * N + c[3]

CellOf(idx, N) == <<idx \div (N * N), (idx \div N) % N, idx % N>>

InGrid(c, N) == \A a \in 1..3 : c[a] >= 0 /\ c[a] < N

\* grid-space position of a point: ((p - gridMin) / gridRange) * N
GridPos(p, gridMin, gridMax, N) ==
  IF \E a \in 1..3 : Abs(gridMin[a]) >= Infinity \/ Abs(gridMax[a]) >= Infinity THEN NaNVec
  ELSE Array([a \in 1..3 |-> ((p[a] - gridMin[a]) * N * GridFP) \div (gridMax[a] - gridMin[a])])

CenterCell(gp) == Array([a \in 1..3 |-> gp[a] \div GridFP])

cellRadius(splatRadius) == (splatRadius + LenDen - 1) \div LenDen

\* squared grid-space distance from gp to the centre of cell c, in (1/(2 GridFP))^2
Dist2(gp, c) ==
  LET d(a) == 2 * gp[a] - (2 * c[a] + 1) * GridFP
  IN  d(1) * d(1) + d(2) * d(2) + d(3) * d(3)

\* dist <= splatRadius
WithinRadius(d2, splatRadius) ==
  d2 * LenDen * LenDen <= 4 * GridFP * GridFP * splatRadius * splatRadius

gaussianWeight(d2, splatRadius) ==
  GaussTable[((Len(GaussTable) - 1) * d2 * LenDen * LenDen)
               \div (4 * GridFP * GridFP * splatRadius * splatRadius) + 1]

\* the cells visited by the dx, dy, dz loops of one point
SplatLoop(gp, splatRadius) ==
  LET cr == cellRadius(splatRadius)
      cc == CenterCell(gp)
  IN  { <<cc[1] + dx, cc[2] + dy, cc[3] + dz>> : dx \in -cr..cr, dy \in -cr..cr, dz \in -cr..cr }

\* weight one point adds to cell c (0 when the loops skip the cell)
SplatWeight_noRadiusTest(gp, c, N, splatRadius) ==
  LET cr == cellRadius(splatRadius)
      cc == CenterCell(gp)
  IN  IF /\ gp # NaNVec
         /\ \A a \in 1..3 : Abs(c[a] - cc[a]) <= cr
         /\ InGrid(c, N)
      THEN IF WithinRadius(Dist2(gp, c), splatRadius)
           THEN gaussianWeight(Dist2(gp, c), splatRadius)
           ELSE GaussTable[Len(GaussTable)]
      ELSE 0

SplatWeight(gp, c, N, splatRadius) ==
  LET cr == cellRadius(splatRadius)
      cc == CenterCell(gp)
  IN  IF /\ gp # NaNVec
         /\ \A a \in 1..3 : Abs(c[a] - cc[a]) <= cr
         /\ InGrid(c, N)
         /\ WithinRadius(Dist2(gp, c), splatRadius)
      THEN gaussianWeight(Dist2(gp, c), splatRadius)
      ELSE 0

\* contributions inside the splat radius that the out-of-grid test discards
Clipped(positions, gridMin, gridMax, N, splatRadius) ==
  { <<i, c>> \in (1..Len(positions)) \X
        UNION { SplatLoop(GridPos(positions[j], gridMin, gridMax, N), splatRadius) :
                  j \in 1..Len(positions) } :
      LET gp == GridPos(positions[i], gridMin, gridMax, N)
      IN  /\ c \in SplatLoop(gp, splatRadius)
          /\ ~InGrid(c, N)
          /\ WithinRadius(Dist2(gp, c), splatRadius) }

\* CPUMarchingCubes.buildDensityField
buildDensityField(positions, colors, N, splatRadius, gridMin, gridMax) ==
  LET count == Len(positions)
      gp == Array([i \in 1..count |-> GridPos(positions[i], gridMin, gridMax, N)])
      w(i, idx) == SplatWeight(gp[i], CellOf(idx, N), N, splatRadius)
      weights == Array([idx \in 0..(GridCount(N) - 1) |-> SeqSum([i \in 1..count |-> w(i, idx)])])
      csum(idx, k) ==
        IF colors = null THEN 0
        ELSE SeqSum([i \in 1..count |-> colors.rgb[i][k] * w(i, idx)])
  IN  [density |-> weights,
       color |-> Array([idx \in 0..(GridCount(N) - 1) |->
                    IF weights[idx] > 0
                    THEN Array([k \in 1..3 |-> csum(idx, k) \div weights[idx]])
                    ELSE [k \in 1..3 |-> Gray]])]

\* ----------------------------------------------------- surface extractor
getDensity(density, c, N) == IF InGrid(c, N) THEN density[getIndex(c, N)] ELSE 0

getColor(color, c, N) ==
  IF InGrid(c, N) THEN color[getIndex(c, N)] ELSE [k \in 1..3 |-> Gray]

Corner(cell, i) == [a \in 1..3 |-> cell[a] + CornerOffsets[i][a]]

\* bit i set when corner i's density is above the iso value
cubeIndexOf_skipLast(cubeValues, iso) ==
  SeqSum([i \in 1..7 |-> IF cubeValues[i] > iso THEN Pow2(i - 1) ELSE 0])

cubeIndexOf(cubeValues, iso) ==
  SeqSum([i \in 1..8 |-> IF cubeValues[i] > iso THEN Pow2(i - 1) ELSE 0])

\* gridMin + k * cellSize for grid corner c, in units of 1/(LenDen*N*VertFP)
cubePosOf(c, gridMin, gridMax, N) ==
  [a \in 1..3 |-> IF Abs(gridMin[a]) >= Infinity \/ Abs(gridMax[a]) >= Infinity THEN NaN
                  ELSE gridMin[a] * N * VertFP + c[a] * (gridMax[a] - gridMin[a]) * VertFP]

\* |x| < 0.00001 for a density difference x
Tiny(x) == Abs(x) * (100000 \div FP_SCALE) < 1

\* t = (iso - v1) / (v2 - v1), truncated to 1/VertFP
InterpT(v1, v2, iso) == ((iso - v1) * VertFP) \div (v2 - v1)

interpolateVertex_overshoot(p1, p2, v1, v2, iso) ==
  IF Tiny(iso - v1) THEN p1
  ELSE IF Tiny(iso - v2) THEN p2
  ELSE IF Tiny(v1 - v2) THEN p1
  ELSE [a \in 1..3 |-> IF p1[a] = NaN \/ p2[a] = NaN THEN NaN
                        ELSE p1[a] + ((InterpT(v1, v2, iso) + VertFP) * (p2[a] - p1[a])) \div VertFP]

interpolateVertex(p1, p2, v1, v2, iso) ==
  IF Tiny(iso - v1) THEN p1
  ELSE IF Tiny(iso - v2) THEN p2
  ELSE IF Tiny(v1 - v2) THEN p1
  ELSE [a \in 1..3 |-> IF p1[a] = NaN \/ p2[a] = NaN THEN NaN
                        ELSE p1[a] + (InterpT(v1, v2, iso) * (p2[a] - p1[a])) \div VertFP]

interpolateColor(c1, c2, v1, v2, iso) ==
  IF Tiny(iso - v1) THEN c1
  ELSE IF Tiny(iso - v2) THEN c2
  ELSE IF Tiny(v1 - v2) THEN c1
  ELSE [k \in 1..3 |-> c1[k] + (InterpT(v1, v2, iso) * (c2[k] - c1[k])) \div VertFP]

Cross(u, v) ==
  <<u[2] * v[3] - u[3] * v[2], u[3] * v[1] - u[1] * v[3], u[1] * v[2] - u[2] * v[1]>>

\* length(cross) < 0.0001 in world units (the cross product is scaled by S^2)
Degenerate_never(n, N) == FALSE

Degenerate(n, N) ==
  LET S == LenDen * N * VertFP
      K == (S * S * S * S - 1) \div 100000000
  IN  /\ n # NaNVec
      /\ \A a \in 1..3 : Abs(n[a]) <= K
      /\ n[1] * n[1] + n[2] * n[2] + n[3] * n[3] <= K

\* the triangles one cell emits, in table order: records [v, n, c]
CellTriangles(field, cell, iso, gridMin, gridMax, N) ==
  LET cubeValues == Array([i \in 1..8 |-> getDensity(field.density, Corner(cell, i), N)])
      cubeColors == Array([i \in 1..8 |-> getColor(field.color, Corner(cell, i), N)])
      cubeIndex == cubeIndexOf(cubeValues, iso)
      edges == edgeTable[cubeIndex + 1]
      cubePos == Array([i \in 1..8 |-> Array(cubePosOf(Corner(cell, i), gridMin, gridMax, N))])
      va(e) == edgeVertices[e + 1][1] + 1
      vb(e) == edgeVertices[e + 1][2] + 1
      vertList == Array([e \in {x \in 0..11 : BitSet(edges, x)} |->
                     Array(interpolateVertex(cubePos[va(e)], cubePos[vb(e)],
                                             cubeValues[va(e)], cubeValues[vb(e)], iso))])
      colorList == Array([e \in {x \in 0..11 : BitSet(edges, x)} |->
                     Array(interpolateColor(cubeColors[va(e)], cubeColors[vb(e)],
                                            cubeValues[va(e)], cubeValues[vb(e)], iso))])
      triangles == triTable[cubeIndex + 1]
      \* index of the first triple whose e0 is -1 or missing ends the loop
      Live(i) == /\ i + 1 <= Len(triangles)
                 /\ \A j \in 0..(i \div 3) : 3 * j + 1 <= Len(triangles) /\ triangles[3 * j + 1] # -1
      Defined(i) == /\ i + 3 <= Len(triangles)
                    /\ \A k \in 1..3 : triangles[i + k] \in DOMAIN vertList
      tri(i) ==
        LET v0 == vertList[triangles[i + 1]]
            v1 == vertList[triangles[i + 2]]
            v2 == vertList[triangles[i + 3]]
            n == IF \E a \in 1..3 : NaN \in {v0[a], v1[a], v2[a]} THEN NaNVec
                 ELSE Cross([a \in 1..3 |-> v1[a] - v0[a]], [a \in 1..3 |-> v2[a] - v0[a]])
        IN  IF Degenerate(n, N) THEN <<>>
            ELSE << [v |-> <<v0, v1, v2>>, n |-> n,
                     c |-> <<colorList[triangles[i + 1]], colorList[triangles[i + 2]],
                             colorList[triangles[i + 3]]>>] >>
  IN  IF edges = 0 THEN <<>>
      ELSE Flatten([j \in 1..((Len(triangles) + 2) \div 3) |->
                      IF Live(3 * (j - 1)) /\ Defined(3 * (j - 1)) THEN tri(3 * (j - 1)) ELSE <<>>])

\* the cells (ix, iy, iz), 0 <= ix, iy, iz < N - 1, in loop order
MarchCells_fullGrid(N) ==
  [k \in 1..(N * N * N) |-> <<(k - 1) \div (N * N), ((k - 1) \div N) % N, (k - 1) % N>>]

MarchCells(N) ==
  [k \in 1..((N - 1) * (N - 1) * (N - 1)) |->
     <<(k - 1) \div ((N - 1) * (N - 1)), ((k - 1) \div (N - 1)) % (N - 1), (k - 1) % (N - 1)>>]

MarchTriangles(field, iso, gridMin, gridMax, N) ==
  Flatten([k \in 1..Len(MarchCells(N)) |->
             CellTriangles(field, MarchCells(N)[k], iso, gridMin, gridMax, N)])

Flat3(t) == t[1] \o t[2] \o t[3]

\* CPUMarchingCubes.march: three number lists grown by one push per triangle
march(field, iso, gridMin, gridMax, N) ==
  LET tris == MarchTriangles(field, iso, gridMin, gridMax, N)
      vertices == Flatten([i \in 1..Len(tris) |-> Flat3(tris[i].v)])
      normals == Flatten([i \in 1..Len(tris) |-> tris[i].n \o tris[i].n \o tris[i].n])
      colors == Flatten([i \in 1..Len(tris) |-> Flat3(tris[i].c)])
  IN  [positions |-> vertices, normals |-> normals, colors |-> colors,
       triangleCount |-> Len(vertices) \div 9]

\* ====================================================================
\* WebGPU device side: buffer contents and the compute passes
ZeroVertex == [position |-> <<0, 0, 0>>, normal |-> <<0, 0, 0>>, color |-> <<0, 0, 0>>]

ZeroGrid(N, v) == [idx \in 0..(GridCount(N) - 1) |-> v]

\* device memory before any buffer exists
NoBuffers ==
  [points |-> <<>>, colors |-> <<>>, numPoints |-> 0, gridSize |-> 0,
   voxels |-> <<>>, voxelColors |-> <<>>, density |-> <<>>, normalizedColors |-> <<>>,
   vertices |-> <<>>, triangleCount |-> 0, readbackSize |-> 0,
   countReadback |-> 0, readback |-> <<>>,
   params |-> [gridMin |-> <<0, 0, 0>>, gridMax |-> <<0, 0, 0>>, splatRadius |-> 0],
   mcParams |-> [isoValue |-> 0, gridSize |-> 0, gridMin |-> <<0, 0, 0>>, gridMax |-> <<0, 0, 0>>],
   queue |-> <<>>]

\* clearVoxelShader
clearVoxelPass(g) ==
  [g EXCEPT !.voxels = ZeroGrid(g.gridSize, 0),
            !.voxelColors = ZeroGrid(g.gridSize, <<0, 0, 0>>)]

\* splatPointsShader: integer atomicAdd of the quantized contributions
splatPointsPass(g) ==
  LET N == g.gridSize
      gp == Array([i \in 1..g.numPoints |->
                     GridPos(g.points[i], g.params.gridMin, g.params.gridMax, N)])
      densityContrib(i, idx) == SplatWeight(gp[i], CellOf(idx, N), N, g.params.splatRadius)
      colorContrib(i, idx, k) == (g.colors[i][k] * densityContrib(i, idx)) \div FP_SCALE
  IN  [g EXCEPT
         !.voxels = Array([idx \in 0..(GridCount(N) - 1) |->
                       g.voxels[idx] + SeqSum([i \in 1..g.numPoints |-> densityContrib(i, idx)])]),
         !.voxelColors = [idx \in 0..(GridCount(N) - 1) |->
                            [k \in 1..3 |-> g.voxelColors[idx][k]
                               + SeqSum([i \in 1..g.numPoints |-> colorContrib(i, idx, k)])]]]

\* normalizeDensityShader: density / FP_SCALE, colour sum / total weight
normalizeDensityPass_unguarded(g) ==
  LET N == g.gridSize
  IN  [g EXCEPT
         !.density = [idx \in 0..(GridCount(N) - 1) |-> g.voxels[idx]],
         !.normalizedColors = [idx \in 0..(GridCount(N) - 1) |->
            IF g.voxels[idx] # 0
            THEN [k \in 1..3 |-> (g.voxelColors[idx][k] * FP_SCALE) \div g.voxels[idx]]
            ELSE NaNVec]]

normalizeDensityPass(g) ==
  LET N == g.gridSize
  IN  [g EXCEPT
         !.density = [idx \in 0..(GridCount(N) - 1) |-> g.voxels[idx]],
         !.normalizedColors = [idx \in 0..(GridCount(N) - 1) |->
            IF g.voxels[idx] > 0
            THEN [k \in 1..3 |-> (g.voxelColors[idx][k] * FP_SCALE) \div g.voxels[idx]]
            ELSE [k \in 1..3 |-> Gray]]]

\* the slot writes of the march pass: triangle number triIdx goes to vertices
\* 3*triIdx .. 3*triIdx+2 when baseIdx + 2 < arrayLength(&vertices)
RECURSIVE WriteTriangles(_, _, _)
WriteTriangles(vertices, tris, triIdx) ==
  IF tris = <<>> THEN vertices
  ELSE LET t == Head(tris)
           baseIdx == triIdx * 3
           written ==
             IF baseIdx + 2 < Len(vertices)
             THEN [j \in 1..Len(vertices) |->
                     IF j - 1 \in baseIdx..(baseIdx + 2)
                     THEN [position |-> t.v[j - baseIdx], normal |-> t.n, color |-> t.c[j - baseIdx]]
                     ELSE vertices[j]]
             ELSE vertices
       IN  WriteTriangles(written, Tail(tris), triIdx + 1)

\* marchingCubesShader: one invocation per cell, atomicAdd reserves the slot
marchingCubesPass(g) ==
  LET N == g.mcParams.gridSize
      field == [density |-> g.density, color |-> g.normalizedColors]
      tris == MarchTriangles(field, g.mcParams.isoValue, g.mcParams.gridMin, g.mcParams.gridMax, N)
  IN  [g EXCEPT !.triangleCount = g.triangleCount + Len(tris),
                !.vertices = WriteTriangles(g.vertices, tris, g.triangleCount)]

\* copyBufferToBuffer(triangleCountBuffer, 0, countReadbackBuffer, 0, 4)
copyCount(g) == [g EXCEPT !.countReadback = g.triangleCount]

\* copyBufferToBuffer(vertexBuffer, 0, readbackBuffer, 0, readSize)
copyVertices(g, readSize) ==
  [g EXCEPT !.readback = SubSeq(g.vertices, 1, readSize \div bytesPerVertex)]

Execute(g, cmd) ==
  CASE cmd.op = "clear" -> clearVoxelPass(g)
    [] cmd.op = "splat" -> splatPointsPass(g)
    [] cmd.op = "normalize" -> normalizeDensityPass(g)
    [] cmd.op = "march" -> marchingCubesPass(g)
    [] cmd.op = "copyCount" -> copyCount(g)
    [] cmd.op = "copyVertices" -> copyVertices(g, cmd.size)

Cmd(op) == [op |-> op, size |-> 0]

\* ====================================================================
\* MeshReconstructor (host side)
\* adapter.limits.maxBufferSize: the WebGPU default limit and a 2 GiB adapter
AdapterMaxBufferSizes == {268435456, 2147483647}

InitOutcomes == {"noGpu", "noAdapter", "deviceError", "pipelineError"}

NewMeshReconstructor ==
  [initialized |-> FALSE, device |-> FALSE, maxBufferSize |-> 0,
   numPoints |-> 0, gridSize |-> DefaultGridSize, triangleCount |-> 0,
   maxTriangleCount |-> 0,
   params |-> [isoValue |-> DefaultIsoValue, splatRadius |-> DefaultSplatRadius,
               gridMin |-> <<-60 * LenDen, -60 * LenDen, -60 * LenDen>>,
               gridMax |-> <<60 * LenDen, 60 * LenDen, 60 * LenDen>>],
   pointsBuffer |-> FALSE, tableBuffers |-> FALSE]

NullResult == [isNull |-> TRUE]

EmptyResult == [positions |-> <<>>, normals |-> <<>>, colors |-> <<>>, triangleCount |-> 0]

Idle == [pc |-> "idle", result |-> NullResult, readSize |-> 0, vertexCount |-> 0, countData |-> 0]

\* init(): failure leaves the instance as it was, except that a failure after
\* requestDevice has already stored the device
init_flagFirst(m, outcome, adapterMax) ==
  IF outcome \in {"noGpu", "noAdapter", "deviceError"} THEN m
  ELSE [m EXCEPT !.device = TRUE, !.maxBufferSize = Min2(adapterMax, 1024 * 1024 * 1024),
                 !.initialized = TRUE]

init(m, outcome, adapterMax) ==
  IF outcome \in {"noGpu", "noAdapter", "deviceError"} THEN m
  ELSE IF outcome = "pipelineError"
  THEN [m EXCEPT !.device = TRUE, !.maxBufferSize = Min2(adapterMax, 1024 * 1024 * 1024)]
  ELSE [m EXCEPT !.device = TRUE, !.maxBufferSize = Min2(adapterMax, 1024 * 1024 * 1024),
                 !.initialized = TRUE]

initReturn(outcome) == outcome = "ok"

\* destroyBuffers(): destroys and nulls the data buffers
destroyBuffers(m, g) ==
  [m |-> [m EXCEPT !.pointsBuffer = FALSE], g |-> NoBuffers]

\* triangle capacity of the vertex buffer
MaxTriangleCount_noLimit(gridRes, maxBufferSize) ==
  LET gridCount == gridRes * gridRes * gridRes
      surfaceVoxels == 6 * gridRes * gridRes * 2
      maxTriangles == Min2(surfaceVoxels * 5, gridCount)
      vertexBufferSize == maxTriangles * 3 * bytesPerVertex
  IN  [actualBufferSize |-> vertexBufferSize,
       maxTriangleCount |-> (vertexBufferSize \div bytesPerVertex) \div 3]

MaxTriangleCount(gridRes, maxBufferSize) ==
  LET gridCount == gridRes * gridRes * gridRes
      surfaceVoxels == 6 * gridRes * gridRes * 2
      maxTriangles == Min2(surfaceVoxels * 5, gridCount)
      maxVertices == maxTriangles * 3
      vertexBufferSize == maxVertices * bytesPerVertex
      maxAllowedSize == Min2(maxBufferSize, 512 * 1024 * 1024)
      actualBufferSize == Min2(vertexBufferSize, maxAllowedSize)
  IN  [actualBufferSize |-> actualBufferSize,
       maxTriangleCount |-> (actualBufferSize \div bytesPerVertex) \div 3]

\* setPointCloud(positions, colors, count, gridRes)
setPointCloud(m, g, cloud, gridRes) ==
  IF ~m.initialized \/ ~m.device THEN [m |-> m, g |-> g]
  ELSE
    LET count == Count(cloud)
        cap == MaxTriangleCount(gridRes, m.maxBufferSize)
        m1 == [m EXCEPT
                 !.pointsBuffer = TRUE, !.tableBuffers = TRUE,
                 !.numPoints = count, !.gridSize = gridRes,
                 !.params.gridMin = PaddedMin(cloud.positions, m.params.splatRadius),
                 !.params.gridMax = PaddedMax(cloud.positions, m.params.splatRadius),
                 !.maxTriangleCount = cap.maxTriangleCount]
        g1 == [NoBuffers EXCEPT
                 !.points = cloud.positions,
                 !.colors = [i \in 1..count |->
                               IF cloud.colors.present THEN cloud.colors.rgb[i]
                               ELSE [k \in 1..3 |-> Gray]],
                 !.numPoints = count, !.gridSize = gridRes,
                 !.voxels = ZeroGrid(gridRes, 0),
                 !.voxelColors = ZeroGrid(gridRes, <<0, 0, 0>>),
                 !.density = ZeroGrid(gridRes, 0),
                 !.normalizedColors = ZeroGrid(gridRes, <<0, 0, 0>>),
                 !.vertices = [j \in 1..(cap.actualBufferSize \div bytesPerVertex) |-> ZeroVertex],
                 !.readbackSize = cap.actualBufferSize]
    IN  [m |-> m1, g |-> g1]

\* updateSplatParams() and updateMCParams()
updateParams(m, g) ==
  [g EXCEPT !.params = [gridMin |-> m.params.gridMin, gridMax |-> m.params.gridMax,
                        splatRadius |-> m.params.splatRadius],
            !.mcParams = [isoValue |-> m.params.isoValue, gridSize |-> m.gridSize,
                          gridMin |-> m.params.gridMin, gridMax |-> m.params.gridMax]]

\* the command buffer reconstruct() submits before its first await
ReconstructCommands_splatFirst ==
  <<Cmd("splat"), Cmd("clear"), Cmd("normalize"), Cmd("march"), Cmd("copyCount")>>

ReconstructCommands ==
  <<Cmd("clear"), Cmd("splat"), Cmd("normalize"), Cmd("march"), Cmd("copyCount")>>

\* reconstruct(), up to `await countReadbackBuffer.mapAsync`
reconstructBegin_noCounterReset(m, g) ==
  IF ~m.initialized \/ ~m.pointsBuffer \/ ~m.device
  THEN [m |-> m, g |-> g, call |-> [Idle EXCEPT !.pc = "returned"]]
  ELSE [m |-> m,
        g |-> [updateParams(m, g) EXCEPT !.queue = g.queue \o ReconstructCommands],
        call |-> [Idle EXCEPT !.pc = "awaitCount"]]

reconstructBegin(m, g) ==
  IF ~m.initialized \/ ~m.pointsBuffer \/ ~m.device
  THEN [m |-> m, g |-> g, call |-> [Idle EXCEPT !.pc = "returned"]]
  ELSE [m |-> m,
        g |-> [updateParams(m, g) EXCEPT !.triangleCount = 0,
                                         !.queue = g.queue \o ReconstructCommands],
        call |-> [Idle EXCEPT !.pc = "awaitCount"]]

\* Math.min(countData[0], this.maxTriangleCount || countData[0])
ClampCount_unclamped(countData, maxTriangleCount) == countData

ClampCount(countData, maxTriangleCount) ==
  Min2(countData, IF maxTriangleCount # 0 THEN maxTriangleCount ELSE countData)

\* reconstruct(), from the counter readback to `await readbackBuffer.mapAsync`
reconstructAfterCount_noEarlyReturn(m, g, c) ==
  LET countData == g.countReadback
      triangleCount == ClampCount(countData, m.maxTriangleCount)
      m1 == [m EXCEPT !.triangleCount = triangleCount]
      actualTriangles == ClampCount(triangleCount, m.maxTriangleCount)
      vertexCount == actualTriangles * 3
      readSize == Min2(vertexCount * bytesPerVertex, g.readbackSize)
  IN  [m |-> m1,
       g |-> [g EXCEPT !.queue = g.queue \o <<[op |-> "copyVertices", size |-> readSize]>>],
       call |-> [c EXCEPT !.pc = "awaitVertex", !.countData = countData,
                          !.readSize = readSize, !.vertexCount = vertexCount]]

reconstructAfterCount(m, g, c) ==
  LET countData == g.countReadback
      triangleCount == ClampCount(countData, m.maxTriangleCount)
      m1 == [m EXCEPT !.triangleCount = triangleCount]
      actualTriangles == ClampCount(triangleCount, m.maxTriangleCount)
      vertexCount == actualTriangles * 3
      readSize == Min2(vertexCount * bytesPerVertex, g.readbackSize)
  IN  IF triangleCount = 0
      THEN [m |-> m1, g |-> g,
            call |-> [c EXCEPT !.pc = "returned", !.result = EmptyResult, !.countData = countData]]
      ELSE [m |-> m1,
            g |-> [g EXCEPT !.queue = g.queue \o <<[op |-> "copyVertices", size |-> readSize]>>],
            call |-> [c EXCEPT !.pc = "awaitVertex", !.countData = countData,
                               !.readSize = readSize, !.vertexCount = vertexCount]]

\* vertexData[f]: float f of the mapped range, 12 floats per vertex
VertexFloat(vertexData, f) ==
  LET v == f \div 12
      k == f % 12
  IN  IF v >= Len(vertexData) THEN NaN
      ELSE IF k < 3 THEN vertexData[v + 1].position[k + 1]
      ELSE IF k \in 4..6 THEN vertexData[v + 1].normal[k - 3]
      ELSE IF k \in 8..10 THEN vertexData[v + 1].color[k - 7]
      ELSE 0

\* new Float32Array(len) filled from the floats at offset off of each vertex
Unpack(vertexData, off, len) ==
  [j \in 1..len |-> VertexFloat(vertexData, ((j - 1) \div 3) * 12 + off + ((j - 1) % 3))]

\* reconstruct(), after the vertex readback: unpack into the three arrays
reconstructAfterVertices_paddedNormals(m, g, c) ==
  [c EXCEPT !.pc = "returned",
            !.result = [positions |-> Unpack(g.readback, 0, c.vertexCount * 3),
                        normals |-> Unpack(g.readback, 4, c.vertexCount * 4),
                        colors |-> Unpack(g.readback, 8, c.vertexCount * 3),
                        triangleCount |-> m.triangleCount]]

reconstructAfterVertices(m, g, c) ==
  [c EXCEPT !.pc = "returned",
            !.result = [positions |-> Unpack(g.readback, 0, c.vertexCount * 3),
                        normals |-> Unpack(g.readback, 4, c.vertexCount * 3),
                        colors |-> Unpack(g.readback, 8, c.vertexCount * 3),
                        triangleCount |-> m.triangleCount]]

\* destroy()
destroy(m, g) ==
  [m |-> [destroyBuffers(m, g).m EXCEPT !.tableBuffers = FALSE], g |-> NoBuffers]

\* ====================================================================
\* The unsigned fixed-point shader set (weights quantized by 1000 into u32
\* cells, x-fastest voxel layout, saturating normalizer, 'density < isoValue'
\* cube index).  It works on the same device memory as the signed set.
DENSITY_SCALE == 1000

\* fn voxelIndex(x, y, z)
voxelIndex(c, N) == c[1] + c[2] * N + c[3] * N * N

VoxelOf(idx, N) == <<idx % N, (idx \div N) % N, idx \div (N * N)>>

\* radiusCells = ceil(radius / min(cellSize.x, cellSize.y, cellSize.z))
radiusCells(radius, gridMin, gridMax, N) ==
  LET ext == Min2(gridMax[1] - gridMin[1],
                  Min2(gridMax[2] - gridMin[2], gridMax[3] - gridMin[3]))
  IN  (radius * N + ext - 1) \div ext

\* squared world distance from pos to the centre of cell c, in (1/(2 N LenDen))^2
WorldDist2(pos, c, gridMin, gridMax, N) ==
  LET d(a) == 2 * N * (pos[a] - gridMin[a]) - (2 * c[a] + 1) * (gridMax[a] - gridMin[a])
  IN  d(1) * d(1) + d(2) * d(2) + d(3) * d(3)

\* dist <= radius, the radius being a world length
WithinWorldRadius(d2, radius, N) == d2 <= 4 * N * N * radius * radius

\* u32(weight * 1000.0), weight = exp(-0.5 * (dist / (radius * 0.5))^2)
quantizedWeight(d2, radius, N) ==
  GaussTable[((Len(GaussTable) - 1) * d2) \div (4 * N * N * radius * radius) + 1]
    \div (FP_SCALE \div DENSITY_SCALE)

\* what one point adds to the density cell c (0 when the loops skip the cell)
SplatQuantum(pos, c, gridMin, gridMax, N, radius) ==
  LET rc == radiusCells(radius, gridMin, gridMax, N)
      cc == CenterCell(GridPos(pos, gridMin, gridMax, N))
      d2 == WorldDist2(pos, c, gridMin, gridMax, N)
  IN  IF /\ \A a \in 1..3 : Abs(c[a] - cc[a]) <= rc
         /\ InGrid(c, N)
         /\ WithinWorldRadius(d2, radius, N)
      THEN quantizedWeight(d2, radius, N)
      ELSE 0

\* splatPointsShader (unsigned)
splatPointsPassU(g) ==
  LET N == g.gridSize
      q(i, idx) == SplatQuantum(g.points[i], VoxelOf(idx, N), g.params.gridMin,
                                g.params.gridMax, N, g.params.splatRadius)
      qs == Array([idx \in 0..(GridCount(N) - 1) |-> Array([i \in 1..g.numPoints |-> q(i, idx)])])
  IN  [g EXCEPT
         !.voxels = Array([idx \in 0..(GridCount(N) - 1) |-> g.voxels[idx] + SeqSum(qs[idx])]),
         !.voxelColors = [idx \in 0..(GridCount(N) - 1) |->
                            [k \in 1..3 |-> g.voxelColors[idx][k]
                               + SeqSum([i \in 1..g.numPoints |->
                                           (g.colors[i][k] * qs[idx][i]) \div COLOR_SCALE])]]]

\* 10000 * exp(-k) for k = 0..10 and 10000 * exp(-j/16) for j = 0..15
ExpWhole == <<10000, 3679, 1353, 498, 183, 67, 25, 9, 3, 1, 0>>

ExpSixteenth ==
  <<10000, 9394, 8825, 8290, 7788, 7316, 6873, 6456,
    6065, 5698, 5353, 5028, 4724, 4437, 4169, 3916>>

\* FP_SCALE * exp(-rawDensity * 0.5) for rawDensity = raw / 1000
ExpNegHalf(raw) ==
  LET x16 == (raw * 16) \div (2 * DENSITY_SCALE)
      k == x16 \div 16
  IN  IF k + 1 > Len(ExpWhole) THEN 0
      ELSE (ExpWhole[k + 1] * ExpSixteenth[(x16 % 16) + 1]) \div FP_SCALE

\* normalizedDensity = 1.0 - exp(-rawDensity * 0.5)
Saturate(raw) == FP_SCALE - ExpNegHalf(raw)

\* normalizeDensityShader (unsigned): colours divided when rawDensity > 0.001
normalizeDensityPassU(g) ==
  LET N == g.gridSize
  IN  [g EXCEPT
         !.density = [idx \in 0..(GridCount(N) - 1) |-> Saturate(g.voxels[idx])],
         !.normalizedColors = [idx \in 0..(GridCount(N) - 1) |->
            IF g.voxels[idx] * 1000 > DENSITY_SCALE
            THEN [k \in 1..3 |-> (g.voxelColors[idx][k] * COLOR_SCALE) \div g.voxels[idx]]
            ELSE [k \in 1..3 |-> Gray]]]

\* fn worldPos(x, y, z) = mix(gridMin, gridMax, (x, y, z) / (gridSize - 1)),
\* in units of 1/(LenDen*(N-1)*VertFP)
worldPos(c, gridMin, gridMax, N) ==
  [a \in 1..3 |-> gridMin[a] * (N - 1) * VertFP + c[a] * (gridMax[a] - gridMin[a]) * VertFP]

\* bit i set when corner i's density is below the iso value
cubeIndexBelow_orEqual(cornerDensity, iso) ==
  SeqSum([i \in 1..8 |-> IF cornerDensity[i] <= iso THEN Pow2(i - 1) ELSE 0])

cubeIndexBelow_skipLast(cornerDensity, iso) ==
  SeqSum([i \in 1..7 |-> IF cornerDensity[i] < iso THEN Pow2(i - 1) ELSE 0])

cubeIndexBelow(cornerDensity, iso) ==
  SeqSum([i \in 1..8 |-> IF cornerDensity[i] < iso THEN Pow2(i - 1) ELSE 0])

\* fn interpolateColor (unsigned set): only the v1 = v2 shortcut
interpolateColorU(c1, c2, v1, v2, iso) ==
  IF Tiny(v1 - v2) THEN c1
  ELSE [k \in 1..3 |-> c1[k] + (InterpT(v1, v2, iso) * (c2[k] - c1[k])) \div VertFP]

\* the invocations of dispatchWorkgroups(ceil(N/4), ceil(N/4), ceil(N/4)) with
\* @workgroup_size(4, 4, 4)
DispatchIds(N) ==
  LET w == 4 * ((N + 3) \div 4)
  IN  [k \in 1..(w * w * w) |-> <<(k - 1) \div (w * w), ((k - 1) \div w) % w, (k - 1) % w>>]

\* if (x >= gridSizeX - 1u || y >= gridSizeY - 1u || z >= gridSizeZ - 1u) { return; }
InvocationReturns(id, N) == id[1] >= N - 1 \/ id[2] >= N - 1 \/ id[3] >= N - 1

\* the invocations that go on to read their eight corners
MarchInvocations(N) == SelectSeq(Array(DispatchIds(N)), LAMBDA id : ~InvocationReturns(id, N))

\* cornerDensity[i] = density[voxelIndex(corner i)]
CornerDensity(density, cell, N) ==
  Array([i \in 1..8 |-> density[voxelIndex(Corner(cell, i), N)]])

\* the triangles one invocation emits: vertList and colorList are
\* zero-initialised, no edge number is range-checked
CellTrianglesU(field, cell, iso, gridMin, gridMax, N) ==
  LET cornerDensity == CornerDensity(field.density, cell, N)
      cornerColor == Array([i \in 1..8 |-> field.color[voxelIndex(Corner(cell, i), N)]])
      cubeIndex == cubeIndexBelow(cornerDensity, iso)
      edges == edgeTable[cubeIndex + 1]
      cornerPos == Array([i \in 1..8 |-> Array(worldPos(Corner(cell, i), gridMin, gridMax, N))])
      va(e) == edgeVertices[e + 1][1] + 1
      vb(e) == edgeVertices[e + 1][2] + 1
      vertList == Array([e \in 0..11 |->
                     IF BitSet(edges, e)
                     THEN Array(interpolateVertex(cornerPos[va(e)], cornerPos[vb(e)],
                                                  cornerDensity[va(e)], cornerDensity[vb(e)], iso))
                     ELSE <<0, 0, 0>>])
      colorList == Array([e \in 0..11 |->
                     IF BitSet(edges, e)
                     THEN Array(interpolateColorU(cornerColor[va(e)], cornerColor[vb(e)],
                                                  cornerDensity[va(e)], cornerDensity[vb(e)], iso))
                     ELSE <<0, 0, 0>>])
      row == triTable[cubeIndex + 1]
      \* triTable[tableOffset + i]: the row padded with -1 to 16 entries
      entry(i) == IF i + 1 <= Len(row) THEN row[i + 1] ELSE -1
      Live(i) == \A j \in 0..(i \div 3) : entry(3 * j) >= 0
      tri(i) ==
        LET v0 == vertList[entry(i)]
            v1 == vertList[entry(i + 1)]
            v2 == vertList[entry(i + 2)]
            n == Cross([a \in 1..3 |-> v1[a] - v0[a]], [a \in 1..3 |-> v2[a] - v0[a]])
        IN  IF Degenerate(n, N - 1) THEN <<>>
            ELSE << [v |-> <<v0, v1, v2>>, n |-> n,
                     c |-> <<colorList[entry(i)], colorList[entry(i + 1)],
                             colorList[entry(i + 2)]>>] >>
  IN  IF edges = 0 THEN <<>>
      ELSE Flatten([j \in 1..5 |-> IF Live(3 * (j - 1)) THEN tri(3 * (j - 1)) ELSE <<>>])

\* marchingCubesShader (unsigned)
marchingCubesPassU(g) ==
  LET N == g.mcParams.gridSize
      field == [density |-> g.density, color |-> g.normalizedColors]
      cells == MarchInvocations(N)
      tris == Flatten([k \in 1..Len(cells) |->
                CellTrianglesU(field, cells[k], g.mcParams.isoValue,
                               g.mcParams.gridMin, g.mcParams.gridMax, N)])
  IN  [g EXCEPT !.triangleCount = g.triangleCount + Len(tris),
                !.vertices = WriteTriangles(g.vertices, tris, g.triangleCount)]

\* ====================================================================
\* CPUMarchingCubes (sequential reference)
NewCPUMarchingCubes ==
  [gridSize |-> DefaultGridSize, isoValue |-> DefaultIsoValue, splatRadius |-> DefaultSplatRadius,
   gridMin |-> <<-60 * LenDen, -60 * LenDen, -60 * LenDen>>,
   gridMax |-> <<60 * LenDen, 60 * LenDen, 60 * LenDen>>]

NoCall == [made |-> FALSE]

\* CPUMarchingCubes.reconstruct(positions, colors, count)
reconstruct_staleGrid(c, cloud) ==
  LET c1 == [c EXCEPT !.gridMin = PaddedMin(cloud.positions, c.splatRadius),
                      !.gridMax = PaddedMax(cloud.positions, c.splatRadius)]
      field == buildDensityField(cloud.positions, cloud.colors, c.gridSize, c.splatRadius,
                                 c.gridMin, c.gridMax)
  IN  [cpu |-> c1, result |-> march(field, c.isoValue, c.gridMin, c.gridMax, c.gridSize)]

reconstruct(c, cloud) ==
  LET c1 == [c EXCEPT !.gridMin = PaddedMin(cloud.positions, c.splatRadius),
                      !.gridMax = PaddedMax(cloud.positions, c.splatRadius)]
      field == buildDensityField(cloud.positions, cloud.colors, c1.gridSize, c1.splatRadius,
                                 c1.gridMin, c1.gridMax)
  IN  [cpu |-> c1, result |-> march(field, c1.isoValue, c1.gridMin, c1.gridMax, c1.gridSize)]

\* ====================================================================
\* State
NoPipe == [shader |-> "none"]

NoAcc == [shader |-> "none"]

NoCube == [made |-> FALSE]

NoPar == [pass |-> "none"]

NoAlloc == [made |-> FALSE]

\* the GPUBuffer fields of a MeshReconstructor: those destroyBuffers() lists
DataBufferFields ==
  {"pointsBuffer", "colorsBuffer", "voxelBuffer", "voxelColorsRBuffer", "voxelColorsGBuffer",
   "voxelColorsBBuffer", "normalizedColorsBuffer", "densityBuffer", "vertexBuffer",
   "triangleCountBuffer", "readbackBuffer", "countReadbackBuffer", "paramsBuffer",
   "mcParamsBuffer", "gridSizeBuffer", "numPointsBuffer", "gridMinBuffer", "gridMaxBuffer"}

\* and the two that only destroy() touches
TableBufferFields == {"edgeTableBuffer", "triTableBuffer"}

BufferFields == DataBufferFields \cup TableBufferFields

\* refs[f]: the buffer object field f points to, named by the setPointCloud call
\* that created it (0: null); live: the objects created and not yet destroyed
NoHeap ==
  [mounted |-> TRUE, created |-> 0, refs |-> [f \in BufferFields |-> 0], live |-> {},
   calls |-> <<>>]

VARIABLES
  variant,      \* "gpu": a MeshReconstructor, "cpu": a CPUMarchingCubes
  mr,           \* fields of the MeshReconstructor
  gpu,          \* device memory and the command queue
  call,         \* the reconstruct() call: position, locals, returned value
  log,          \* steps of the current reconstruct() call, in execution order
  initResult,   \* value returned by the last init(): "none", "true", "false"
  epoch,        \* flips each time a reconstruction is started
  cpu,          \* fields of the CPUMarchingCubes
  cpuIn,        \* arguments and parameters of the last CPU reconstruct
  cpuOut,       \* Result of the last CPU reconstruct
  cpuPrevOut,   \* Result of the call before, when it had the same arguments
  pipe,         \* the passes of one shader set run one by one on a fixed input
  acc,          \* one density cell under a stream of atomicAdd contributions
  cube,         \* eight corner densities and their cube indices
  par,          \* the work-items of one compute pass, interleaved
  heap,         \* the GPU buffer objects created so far and the calls awaiting them
  alloc         \* the vertex-buffer sizing of setPointCloud on given inputs

vars ==
  <<variant, mr, gpu, call, log, initResult, epoch, cpu, cpuIn, cpuOut, cpuPrevOut,
    pipe, acc, cube, par, heap, alloc>>

gpuVars == <<mr, gpu, call, log, initResult, epoch>>

cpuVars == <<cpu, cpuIn, cpuOut, cpuPrevOut>>

benchVars == <<pipe, acc, cube, par, heap, alloc>>

InFlight == {"awaitCount", "awaitVertex"}

\* the objects under study, before any of their operations is called
Constructed ==
  /\ mr = NewMeshReconstructor
  /\ gpu = NoBuffers
  /\ call = Idle
  /\ log = <<>>
  /\ initResult = "none"
  /\ epoch = 0
  /\ cpu = NewCPUMarchingCubes
  /\ cpuIn = NoCall
  /\ cpuOut = NoCall
  /\ cpuPrevOut = NoCall
  /\ heap = NoHeap

Init ==
  /\ variant \in {"gpu", "cpu"}
  /\ Constructed
  /\ alloc = NoAlloc
  /\ pipe = NoPipe
  /\ acc = NoAcc
  /\ cube = NoCube
  /\ par = NoPar

\* ---- MeshReconstructor, called by a client that awaits each reconstruct
MrInit(outcome, adapterMax) ==
  /\ variant = "gpu" /\ call.pc = "idle" /\ ~mr.initialized
  /\ mr' = init(mr, outcome, adapterMax)
  /\ initResult' = IF initReturn(outcome) THEN "true" ELSE "false"
  /\ UNCHANGED <<variant, gpu, call, log, epoch>> /\ UNCHANGED cpuVars /\ UNCHANGED benchVars

WriteParams(iso, sr) ==
  /\ variant = "gpu" /\ call.pc = "idle"
  /\ mr' = [mr EXCEPT !.params.isoValue = iso, !.params.splatRadius = sr]
  /\ UNCHANGED <<variant, gpu, call, log, initResult, epoch>> /\ UNCHANGED cpuVars /\ UNCHANGED benchVars

SetPointCloud(cloud, gridRes) ==
  /\ variant = "gpu" /\ call.pc = "idle"
  /\ LET r == setPointCloud(mr, gpu, cloud, gridRes)
     IN  mr' = r.m /\ gpu' = r.g
  /\ UNCHANGED <<variant, call, log, initResult, epoch>> /\ UNCHANGED cpuVars /\ UNCHANGED benchVars

Reconstruct ==
  /\ variant = "gpu" /\ call.pc = "idle"
  /\ LET r == reconstructBegin(mr, gpu)
     IN  mr' = r.m /\ gpu' = r.g /\ call' = r.call
  /\ log' = <<>>
  /\ epoch' = 1 - epoch
  /\ UNCHANGED <<variant, initResult>> /\ UNCHANGED cpuVars /\ UNCHANGED benchVars

\* the device executes the next command of the queue
GpuStep ==
  /\ variant = "gpu" /\ gpu.queue # <<>>
  /\ gpu' = [Execute(gpu, Head(gpu.queue)) EXCEPT !.queue = Tail(gpu.queue)]
  /\ log' = Append(log, Head(gpu.queue).op)
  /\ UNCHANGED <<variant, mr, call, initResult, epoch>> /\ UNCHANGED cpuVars /\ UNCHANGED benchVars

\* a bind group over the zero-sized points buffer (count = 0) is invalid:
\* validation rejects the submitted batch and none of its commands runs
SubmitInvalid ==
  /\ variant = "gpu" /\ gpu.queue # <<>> /\ gpu.numPoints = 0
  /\ Head(gpu.queue).op # "copyVertices" /\ log = <<>>
  /\ gpu' = [gpu EXCEPT !.queue = <<>>]
  /\ log' = <<"rejected">>
  /\ UNCHANGED <<variant, mr, call, initResult, epoch>> /\ UNCHANGED cpuVars /\ UNCHANGED benchVars

\* countReadbackBuffer.mapAsync resolves; reconstruct() continues
CountMapped ==
  /\ variant = "gpu" /\ call.pc = "awaitCount" /\ gpu.queue = <<>>
  /\ LET r == reconstructAfterCount(mr, gpu, call)
     IN  mr' = r.m /\ gpu' = r.g /\ call' = r.call
  /\ log' = Append(log, "readCount")
  /\ UNCHANGED <<variant, initResult, epoch>> /\ UNCHANGED cpuVars /\ UNCHANGED benchVars

\* readbackBuffer.mapAsync resolves; reconstruct() continues and returns
VertexMapped ==
  /\ variant = "gpu" /\ call.pc = "awaitVertex" /\ gpu.queue = <<>>
  /\ call' = reconstructAfterVertices(mr, gpu, call)
  /\ log' = Append(log, "readVertices")
  /\ UNCHANGED <<variant, mr, gpu, initResult, epoch>> /\ UNCHANGED cpuVars /\ UNCHANGED benchVars

\* the caller's continuation takes the value
Return ==
  /\ variant = "gpu" /\ call.pc = "returned"
  /\ call' = Idle
  /\ UNCHANGED <<variant, mr, gpu, log, initResult, epoch>> /\ UNCHANGED cpuVars /\ UNCHANGED benchVars

Destroy ==
  /\ variant = "gpu" /\ call.pc = "idle"
  /\ LET r == destroy(mr, gpu)
     IN  mr' = r.m /\ gpu' = r.g
  /\ UNCHANGED <<variant, call, log, initResult, epoch>> /\ UNCHANGED cpuVars /\ UNCHANGED benchVars

\* ---- CPUMarchingCubes
CpuSetParams(gridRes, iso, sr) ==
  /\ variant = "cpu"
  /\ cpu' = [cpu EXCEPT !.gridSize = gridRes, !.isoValue = iso, !.splatRadius = sr]
  /\ UNCHANGED <<variant, cpuIn, cpuOut, cpuPrevOut>> /\ UNCHANGED gpuVars /\ UNCHANGED benchVars

CpuReconstruct(cloud) ==
  /\ variant = "cpu" /\ cpu.gridSize \in GridResolutions
  /\ LET r == reconstruct(cpu, cloud)
         in == [made |-> TRUE, cloud |-> cloud, gridSize |-> cpu.gridSize,
                isoValue |-> cpu.isoValue, splatRadius |-> cpu.splatRadius]
     IN  /\ cpu' = r.cpu
         /\ cpuOut' = r.result
         /\ cpuIn' = in
         /\ cpuPrevOut' = IF in = cpuIn THEN cpuOut ELSE NoCall
  /\ UNCHANGED variant /\ UNCHANGED gpuVars /\ UNCHANGED benchVars

Next ==
  \/ \E o \in InitOutcomes \cup {"ok"}, a \in AdapterMaxBufferSizes : MrInit(o, a)
  \/ \E p \in ParamSettings : WriteParams(p.isoValue, p.splatRadius)
  \/ \E cloud \in Clouds, n \in GridResolutions : SetPointCloud(cloud, n)
  \/ Reconstruct
  \/ GpuStep
  \/ SubmitInvalid
  \/ CountMapped
  \/ VertexMapped
  \/ Return
  \/ Destroy
  \/ \E n \in GridResolutions, p \in ParamSettings : CpuSetParams(n, p.isoValue, p.splatRadius)
  \/ \E cloud \in Clouds : CpuReconstruct(cloud)

Spec == Init /\ [][Next]_vars

\* ---- the application: UI handlers that do not wait for a running rebuild
\* rebuildMesh(): write the parameters, setPointCloud, start reconstruct
RebuildMesh(cloud, gridRes, iso, sr) ==
  /\ variant = "gpu" /\ call.pc \in {"idle"} \cup InFlight
  /\ mr.initialized
  /\ LET m1 == [mr EXCEPT !.params.isoValue = iso, !.params.splatRadius = sr]
         s == setPointCloud(m1, gpu, cloud, gridRes)
         r == reconstructBegin(s.m, s.g)
     IN  mr' = r.m /\ gpu' = r.g /\ call' = r.call
  /\ log' = <<>>
  /\ epoch' = 1 - epoch
  /\ UNCHANGED <<variant, initResult>> /\ UNCHANGED cpuVars /\ UNCHANGED benchVars

NextApp ==
  \/ \E o \in InitOutcomes \cup {"ok"}, a \in AdapterMaxBufferSizes : MrInit(o, a)
  \/ \E cloud \in Clouds, n \in GridResolutions, p \in ParamSettings :
       RebuildMesh(cloud, n, p.isoValue, p.splatRadius)
  \/ GpuStep
  \/ SubmitInvalid
  \/ CountMapped
  \/ VertexMapped
  \/ Return

SpecApp == Init /\ [][NextApp]_vars

\* ====================================================================
\* The passes one by one: voxelizer, normalizer and surface extractor of each
\* implementation ("cpu": CPUMarchingCubes, "i32": the signed shader set,
\* "u32": the unsigned shader set) on a point cloud and its padded grid
Shaders == {"cpu", "i32", "u32"}

PassResolutions == 2..(MaxGridRes + 1)

\* cubeValues of a cell
CubeValues(density, cell, N) == Array([i \in 1..8 |-> getDensity(density, Corner(cell, i), N)])

\* the device memory of a shader set after setPointCloud and the parameter
\* uploads of reconstruct
DeviceFor(cloud, N, p) ==
  LET a == CHOOSE x \in AdapterMaxBufferSizes : \A y \in AdapterMaxBufferSizes : x <= y
      m0 == [init(NewMeshReconstructor, "ok", a) EXCEPT
               !.params.isoValue = p.isoValue, !.params.splatRadius = p.splatRadius]
      s == setPointCloud(m0, NoBuffers, cloud, N)
  IN  updateParams(s.m, s.g)

NewPipe(shader, cloud, N, p) ==
  [shader |-> shader, stage |-> "input", cloud |-> cloud, N |-> N,
   isoValue |-> p.isoValue, splatRadius |-> p.splatRadius,
   gridMin |-> PaddedMin(cloud.positions, p.splatRadius),
   gridMax |-> PaddedMax(cloud.positions, p.splatRadius),
   g |-> IF shader = "cpu" THEN NoBuffers ELSE DeviceFor(cloud, N, p),
   field |-> [density |-> <<>>, color |-> <<>>],
   cells |-> <<>>,
   result |-> NoCall]

\* two points on each of seven corners of a cell, one on the eighth and one on
\* the far corner of the lattice: with isoValue 1.0 the eighth corner's density
\* equals isoValue
SnapLattice ==
  << <<0, 0, 0>>, <<0, 0, 0>>, <<0, 0, 4>>, <<0, 0, 4>>,
     <<0, 4, 0>>, <<0, 4, 0>>, <<0, 4, 4>>, <<0, 4, 4>>,
     <<4, 0, 0>>, <<4, 0, 0>>, <<4, 0, 4>>, <<4, 0, 4>>,
     <<4, 4, 0>>, <<4, 4, 0>>, <<4, 4, 4>>, <<8, 8, 8>> >>

PassClouds == Clouds \cup {[positions |-> SnapLattice, colors |-> null]}

PassSettings == ParamSettings \cup {[isoValue |-> FP_SCALE, splatRadius |-> LenDen \div 2]}

InitPasses ==
  /\ variant = "passes"
  /\ Constructed
  /\ alloc = NoAlloc
  /\ pipe \in { NewPipe(s, c, n, p) :
                  s \in Shaders, c \in PassClouds, n \in PassResolutions, p \in PassSettings }
  /\ pipe.shader = "cpu" \/ Count(pipe.cloud) > 0
  /\ acc = NoAcc
  /\ cube = NoCube
  /\ par = NoPar

passVars ==
  <<variant, mr, gpu, call, log, initResult, epoch, cpu, cpuIn, cpuOut, cpuPrevOut, acc, cube, par, heap, alloc>>

PassClear ==
  /\ pipe.shader \in {"i32", "u32"} /\ pipe.stage = "input"
  /\ pipe' = [pipe EXCEPT !.stage = "cleared", !.g = clearVoxelPass(pipe.g)]
  /\ UNCHANGED passVars

PassSplat ==
  /\ pipe.shader \in {"i32", "u32"} /\ pipe.stage = "cleared"
  /\ pipe' = [pipe EXCEPT !.stage = "splatted",
                          !.g = IF pipe.shader = "i32" THEN splatPointsPass(pipe.g)
                                ELSE splatPointsPassU(pipe.g)]
  /\ UNCHANGED passVars

PassNormalize ==
  /\ pipe.shader \in {"i32", "u32"} /\ pipe.stage = "splatted"
  /\ LET g1 == IF pipe.shader = "i32" THEN normalizeDensityPass(pipe.g)
               ELSE normalizeDensityPassU(pipe.g)
     IN  pipe' = [pipe EXCEPT !.stage = "normalized", !.g = g1,
                              !.field = [density |-> g1.density, color |-> g1.normalizedColors]]
  /\ UNCHANGED passVars

\* the march pass; cells records, per cell processed, its cube index and the
\* number of triangles it emitted
PassMarch ==
  /\ pipe.shader \in {"i32", "u32"} /\ pipe.stage = "normalized"
  /\ LET N == pipe.g.mcParams.gridSize
         iso == pipe.g.mcParams.isoValue
         gmin == pipe.g.mcParams.gridMin
         gmax == pipe.g.mcParams.gridMax
         cs == IF pipe.shader = "i32" THEN MarchCells(N) ELSE MarchInvocations(N)
         entry(cell) ==
           IF pipe.shader = "i32"
           THEN [cell |-> cell,
                 cubeIndex |-> cubeIndexOf(CubeValues(pipe.field.density, cell, N), iso),
                 emitted |-> Len(CellTriangles(pipe.field, cell, iso, gmin, gmax, N))]
           ELSE [cell |-> cell,
                 cubeIndex |-> cubeIndexBelow(CornerDensity(pipe.field.density, cell, N), iso),
                 emitted |-> Len(CellTrianglesU(pipe.field, cell, iso, gmin, gmax, N))]
         g1 == IF pipe.shader = "i32" THEN marchingCubesPass(pipe.g)
               ELSE marchingCubesPassU(pipe.g)
     IN  pipe' = [pipe EXCEPT !.stage = "marched", !.g = g1,
                              !.cells = [k \in 1..Len(cs) |-> entry(cs[k])]]
  /\ UNCHANGED passVars

CpuBuildDensityField ==
  /\ pipe.shader = "cpu" /\ pipe.stage = "input"
  /\ pipe' = [pipe EXCEPT
                !.stage = "normalized",
                !.field = buildDensityField(pipe.cloud.positions, pipe.cloud.colors, pipe.N,
                                            pipe.splatRadius, pipe.gridMin, pipe.gridMax)]
  /\ UNCHANGED passVars

CpuMarch ==
  /\ pipe.shader = "cpu" /\ pipe.stage = "normalized"
  /\ LET cs == MarchCells(pipe.N)
         entry(cell) ==
           [cell |-> cell,
            cubeIndex |-> cubeIndexOf(CubeValues(pipe.field.density, cell, pipe.N), pipe.isoValue),
            emitted |-> Len(CellTriangles(pipe.field, cell, pipe.isoValue,
                                          pipe.gridMin, pipe.gridMax, pipe.N))]
     IN  pipe' = [pipe EXCEPT
                    !.stage = "marched",
                    !.cells = [k \in 1..Len(cs) |-> entry(cs[k])],
                    !.result = march(pipe.field, pipe.isoValue, pipe.gridMin, pipe.gridMax, pipe.N)]
  /\ UNCHANGED passVars

NextPasses ==
  \/ PassClear
  \/ PassSplat
  \/ PassNormalize
  \/ PassMarch
  \/ CpuBuildDensityField
  \/ CpuMarch

SpecPasses == InitPasses /\ [][NextPasses]_vars

\* ====================================================================
\* One density cell under the atomicAdd stream of a splat pass.  A 32-bit
\* cell is kept as two 16-bit halves, as is the exact sum of what was added
\* (whose upper half is not cut), so that 2^31 and 2^32 can be crossed.
MaxPointCount == 2000000

PointStep == 100000

HalfWord == 65536

ZeroWord == [hi |-> 0, lo |-> 0]

\* w + k for 0 <= k < 2^31, upper half unbounded
WordAdd(w, k) ==
  LET t == w.lo + (k % HalfWord)
  IN  [hi |-> w.hi + (k \div HalfWord) + (t \div HalfWord), lo |-> t % HalfWord]

\* atomicAdd on a 32-bit cell: the sum modulo 2^32
atomicAdd(w, k) ==
  LET s == WordAdd(w, k)
  IN  [hi |-> s.hi % HalfWord, lo |-> s.lo]

\* the distance classes of the contributing points: u = d^2/r^2 of 0, 1/2, 1
WeightClasses == {1, (Len(GaussTable) + 1) \div 2, Len(GaussTable)}

\* i32(weight * FP_SCALE) and u32(weight * 1000.0)
Quantized(shader, class) ==
  IF shader = "i32" THEN GaussTable[class]
  ELSE GaussTable[class] \div (FP_SCALE \div DENSITY_SCALE)

InitAccum ==
  /\ variant = "accumulator"
  /\ Constructed
  /\ alloc = NoAlloc
  /\ pipe = NoPipe
  /\ acc \in { [shader |-> s, points |-> 0, sum |-> ZeroWord, cell |-> ZeroWord] :
                 s \in {"i32", "u32"} }
  /\ cube = NoCube
  /\ par = NoPar

\* PointStep more invocations of the splat pass add to the cell, all from
\* points of one distance class
SplatBatch(class) ==
  /\ variant = "accumulator"
  /\ acc.points + PointStep <= MaxPointCount
  /\ LET k == PointStep * Quantized(acc.shader, class)
     IN  acc' = [acc EXCEPT !.points = acc.points + PointStep,
                            !.sum = WordAdd(acc.sum, k),
                            !.cell = atomicAdd(acc.cell, k)]
  /\ UNCHANGED <<variant, mr, gpu, call, log, initResult, epoch, cpu, cpuIn, cpuOut,
                 cpuPrevOut, pipe, cube, par, heap, alloc>>

NextAccum == \E class \in WeightClasses : SplatBatch(class)

SpecAccum == InitAccum /\ [][NextAccum]_vars

\* ====================================================================
\* The two cube-index conventions on the same eight corner densities
DensityLevels == {0, FP_SCALE \div 10, DefaultIsoValue}

InitCube ==
  /\ variant = "cubeIndex"
  /\ Constructed
  /\ alloc = NoAlloc
  /\ pipe = NoPipe
  /\ acc = NoAcc
  /\ par = NoPar
  /\ cube \in { [made |-> FALSE, cubeValues |-> cv, isoValue |-> p.isoValue,
                 above |-> 0, below |-> 0] :
                  cv \in [1..8 -> DensityLevels], p \in ParamSettings }

\* both shaders' classification loops on the cell
Classify ==
  /\ variant = "cubeIndex" /\ ~cube.made
  /\ cube' = [cube EXCEPT !.made = TRUE,
                          !.above = cubeIndexOf(cube.cubeValues, cube.isoValue),
                          !.below = cubeIndexBelow(cube.cubeValues, cube.isoValue)]
  /\ UNCHANGED <<variant, mr, gpu, call, log, initResult, epoch, cpu, cpuIn, cpuOut,
                 cpuPrevOut, pipe, acc, par, heap, alloc>>

NextCube == Classify

SpecCube == InitCube /\ [][NextCube]_vars

\* ====================================================================
\* The march pass as concurrent invocations.  Each live invocation runs its
\* triangle loop; `atomicAdd(&triangleCount, 1u)` and the stores into
\* vertices[baseIdx .. baseIdx + 2] that follow it are separate steps, and the
\* steps of different invocations interleave freely.
\* the grid resolution that puts one cell on every site of the lattice
SitesPerAxis == Cardinality({Lattice[i][1] : i \in 1..Len(Lattice)})

\* clouds on lattice sites whose blobs touch few cells
ParClouds ==
  { [positions |-> << <<0, 0, 0>>, <<8, 8, 0>>, <<8, 0, 8>>, <<0, 8, 8>> >>, colors |-> null],
    [positions |-> << <<0, 0, 0>>, <<4, 0, 0>>, <<8, 8, 8>> >>,
     colors |-> Rgb(<< <<1000, 0, 0>>, <<0, 1000, 0>>, <<0, 0, 1000>> >>)] }

\* the device memory when the march pass starts
BeforeMarch(shader, cloud, N, p) ==
  LET g == clearVoxelPass(DeviceFor(cloud, N, p))
  IN  IF shader = "i32" THEN normalizeDensityPass(splatPointsPass(g))
      ELSE normalizeDensityPassU(splatPointsPassU(g))

\* per live invocation, the non-degenerate triangles of its loop, in loop order
InvocationTriangles(shader, g) ==
  LET N == g.mcParams.gridSize
      field == [density |-> g.density, color |-> g.normalizedColors]
      cs == IF shader = "i32" THEN MarchCells(N) ELSE MarchInvocations(N)
  IN  Array([k \in 1..Len(cs) |->
        IF shader = "i32"
        THEN CellTriangles(field, cs[k], g.mcParams.isoValue,
                           g.mcParams.gridMin, g.mcParams.gridMax, N)
        ELSE CellTrianglesU(field, cs[k], g.mcParams.isoValue,
                            g.mcParams.gridMin, g.mcParams.gridMax, N)])

\* atomicAdd(&triangleCount, 1u): the value before, and the value stored
fetchAdd_staleRead(counter) == [old |-> 0, new |-> counter + 1]

fetchAdd_lostUpdate(counter) == [old |-> counter, new |-> counter]

fetchAdd(counter) == [old |-> counter, new |-> counter + 1]

\* the pass with its invocations run one after the other
marchingCubesPassOf(shader, g) ==
  IF shader = "i32" THEN marchingCubesPass(g) ELSE marchingCubesPassU(g)

MarchScene(shader, cloud, N, p) ==
  LET g == BeforeMarch(shader, cloud, N, p)
      items == InvocationTriangles(shader, g)
  IN  [pass |-> "march", shader |-> shader,
       items |-> items,
       next |-> [k \in 1..Len(items) |-> 1],
       triIdx |-> [k \in 1..Len(items) |-> -1],
       returned |-> <<>>,
       triangleCount |-> g.triangleCount,
       vertices |-> g.vertices,
       writes |-> [j \in 1..Len(g.vertices) |-> 0],
       sequential |-> marchingCubesPassOf(shader, g)]

\* the settings whose splats stay within one cell
NarrowSettings == {p \in ParamSettings : p.splatRadius < DefaultSplatRadius}

InitMarchPar ==
  /\ variant = "marchPar"
  /\ Constructed
  /\ alloc = NoAlloc
  /\ pipe = NoPipe
  /\ acc = NoAcc
  /\ cube = NoCube
  /\ par \in { MarchScene(s, c, SitesPerAxis, p) :
                 s \in {"i32", "u32"}, c \in ParClouds, p \in NarrowSettings }

parFrame ==
  <<variant, mr, gpu, call, log, initResult, epoch, cpu, cpuIn, cpuOut, cpuPrevOut,
    pipe, acc, cube, heap, alloc>>

\* let triIdx = atomicAdd(&triangleCount, 1u);
AtomicAddTriangle(k) ==
  /\ variant = "marchPar"
  /\ k \in 1..Len(par.items)
  /\ par.triIdx[k] = -1 /\ par.next[k] <= Len(par.items[k])
  /\ LET r == fetchAdd(par.triangleCount)
     IN  par' = [par EXCEPT !.triIdx[k] = r.old, !.triangleCount = r.new,
                            !.returned = Append(par.returned, r.old)]
  /\ UNCHANGED parFrame

\* if (baseIdx + 2u < arrayLength(&vertices)) { vertices[baseIdx ...] = ... }
StoreTriangle(k) ==
  /\ variant = "marchPar"
  /\ k \in 1..Len(par.items)
  /\ par.triIdx[k] >= 0
  /\ LET t == par.items[k][par.next[k]]
         baseIdx == par.triIdx[k] * 3
     IN  par' = [par EXCEPT
                   !.vertices = WriteTriangles(par.vertices, <<t>>, par.triIdx[k]),
                   !.writes = [j \in 1..Len(par.writes) |->
                                 IF baseIdx + 2 < Len(par.vertices) /\ j - 1 \in baseIdx..(baseIdx + 2)
                                 THEN par.writes[j] + 1 ELSE par.writes[j]],
                   !.next[k] = par.next[k] + 1,
                   !.triIdx[k] = -1]
  /\ UNCHANGED parFrame

NextMarchPar ==
  \/ \E k \in 1..((SitesPerAxis - 1) * (SitesPerAxis - 1) * (SitesPerAxis - 1)) : AtomicAddTriangle(k)
  \/ \E k \in 1..((SitesPerAxis - 1) * (SitesPerAxis - 1) * (SitesPerAxis - 1)) : StoreTriangle(k)

SpecMarchPar == InitMarchPar /\ [][NextMarchPar]_vars

\* ====================================================================
\* Slot reservation of the march pass, with more triangles than the vertex
\* buffer holds.  One step is one iteration of an invocation's triangle loop:
\* the atomicAdd and the stores into the slot it returned (the stores touch no
\* location another iteration can name unless two atomicAdds return the same
\* index).  Memory past the end of the buffer is kept, so that a store there
\* is seen.
\* baseIdx + 2u < arrayLength(&vertices)
InBounds(baseIdx, arrayLength) == baseIdx + 2 < arrayLength

SlotClouds == ParClouds \cup {c \in Clouds : Count(c) = Len(Lattice)}

SlotScene(shader, cloud, N, p) ==
  LET g == BeforeMarch(shader, cloud, N, p)
      items == InvocationTriangles(shader, g)
      total == SeqSum([k \in 1..Len(items) |-> Len(items[k])])
  IN  [pass |-> "marchSlots", shader |-> shader,
       emits |-> [k \in 1..Len(items) |-> Len(items[k])],
       next |-> [k \in 1..Len(items) |-> 1],
       returned |-> <<>>,
       triangleCount |-> g.triangleCount,
       arrayLength |-> Len(g.vertices),
       maxTriangleCount |-> Len(g.vertices) \div 3,
       writes |-> [i \in 0..(Len(g.vertices) \div 3 + total) |-> 0]]

InitMarchSlots ==
  /\ variant = "marchSlots"
  /\ Constructed
  /\ alloc = NoAlloc
  /\ pipe = NoPipe
  /\ acc = NoAcc
  /\ cube = NoCube
  /\ par \in { SlotScene("u32", c, SitesPerAxis, p) : c \in SlotClouds, p \in NarrowSettings }

EmitTriangle(k) ==
  /\ variant = "marchSlots"
  /\ k \in DOMAIN par.emits
  /\ par.next[k] <= par.emits[k]
  /\ LET r == fetchAdd(par.triangleCount)
         triIdx == r.old
         baseIdx == triIdx * 3
     IN  par' = [par EXCEPT
                   !.triangleCount = r.new,
                   !.returned = Append(par.returned, triIdx),
                   !.writes = IF InBounds(baseIdx, par.arrayLength)
                              THEN [par.writes EXCEPT ![triIdx] = par.writes[triIdx] + 1]
                              ELSE par.writes,
                   !.next[k] = par.next[k] + 1]
  /\ UNCHANGED parFrame

NextMarchSlots ==
  \E k \in 1..((SitesPerAxis - 1) * (SitesPerAxis - 1) * (SitesPerAxis - 1)) : EmitTriangle(k)

SpecMarchSlots == InitMarchSlots /\ [][NextMarchSlots]_vars

\* ====================================================================
\* The lookup tables, entry by entry
\* the run of edge numbers the triangle loop reads from a row: it stops at the
\* end of the row or at the first -1
TriRun_pastTerminator(row) == row

TriRun(row) ==
  LET stops == {i \in 1..Len(row) : row[i] = -1}
  IN  IF stops = {} THEN row
      ELSE SubSeq(row, 1, (CHOOSE i \in stops : \A j \in stops : i <= j) - 1)

InitTables ==
  /\ variant = "tables"
  /\ Constructed
  /\ alloc = NoAlloc
  /\ pipe = NoPipe
  /\ acc = NoAcc
  /\ par = NoPar
  /\ cube \in { [made |-> FALSE, cubeIndex |-> i, edges |-> 0, triangles |-> <<>>] :
                  i \in 0..(Len(triTable) - 1) }

\* const edges = edgeTable[cubeIndex]; const triangles = triTable[cubeIndex];
LookUp ==
  /\ variant = "tables" /\ ~cube.made
  /\ cube' = [cube EXCEPT !.made = TRUE,
                          !.edges = edgeTable[cube.cubeIndex + 1],
                          !.triangles = TriRun(triTable[cube.cubeIndex + 1])]
  /\ UNCHANGED <<variant, mr, gpu, call, log, initResult, epoch, cpu, cpuIn, cpuOut,
                 cpuPrevOut, pipe, acc, par, heap, alloc>>

NextTables == LookUp

SpecTables == InitTables /\ [][NextTables]_vars

\* ====================================================================
\* The splat pass as concurrent invocations, one per point.  Every atomicAdd
\* of an invocation is a step of its own; the steps of different invocations
\* interleave freely.
\* atomicAdd(&cell, v): the value the cell holds afterwards
atomicAddCell_overwrite(old, v) == v

atomicAddCell(old, v) == old + v

\* two points on one site and a third apart
Coincident ==
  [positions |-> << <<0, 0, 0>>, <<0, 0, 0>>, <<8, 8, 8>> >>,
   colors |-> Rgb(<< <<1000, 0, 0>>, <<0, 1000, 0>>, <<0, 0, 1000>> >>)]

SplatScenes ==
  { <<c, p>> \in Clouds \X ParamSettings : Count(c) \in 1..2 }
    \cup { <<Coincident, p>> : p \in NarrowSettings }

\* what invocation i adds to the density cell idx
DensityContrib(shader, g, i, idx) ==
  LET N == g.gridSize
  IN  IF shader = "i32"
      THEN SplatWeight(GridPos(g.points[i], g.params.gridMin, g.params.gridMax, N),
                       CellOf(idx, N), N, g.params.splatRadius)
      ELSE SplatQuantum(g.points[i], VoxelOf(idx, N), g.params.gridMin, g.params.gridMax,
                        N, g.params.splatRadius)

\* i32(color * weight * COLOR_SCALE) and u32(color * f32(quantizedWeight))
ColorContrib(shader, g, i, idx, k) ==
  IF shader = "i32"
  THEN (g.colors[i][k] * DensityContrib(shader, g, i, idx)) \div FP_SCALE
  ELSE (g.colors[i][k] * DensityContrib(shader, g, i, idx)) \div COLOR_SCALE

\* the atomicAdds of invocation i, in program order: four per cell reached
InvocationAdds(shader, g, i) ==
  Flatten([j \in 1..GridCount(g.gridSize) |->
             IF DensityContrib(shader, g, i, j - 1) = 0 THEN <<>>
             ELSE << [buf |-> 0, idx |-> j - 1, v |-> DensityContrib(shader, g, i, j - 1)],
                     [buf |-> 1, idx |-> j - 1, v |-> ColorContrib(shader, g, i, j - 1, 1)],
                     [buf |-> 2, idx |-> j - 1, v |-> ColorContrib(shader, g, i, j - 1, 2)],
                     [buf |-> 3, idx |-> j - 1, v |-> ColorContrib(shader, g, i, j - 1, 3)] >>])

splatPointsPassOf(shader, g) ==
  IF shader = "i32" THEN splatPointsPass(g) ELSE splatPointsPassU(g)

SplatScene(shader, cloud, N, p) ==
  LET g == clearVoxelPass(DeviceFor(cloud, N, p))
      after == splatPointsPassOf(shader, g)
  IN  [pass |-> "splat", shader |-> shader,
       adds |-> Array([i \in 1..g.numPoints |-> InvocationAdds(shader, g, i)]),
       next |-> [i \in 1..g.numPoints |-> 1],
       voxels |-> g.voxels,
       voxelColors |-> g.voxelColors,
       sequential |-> [voxels |-> after.voxels, voxelColors |-> after.voxelColors]]

InitSplatPar ==
  /\ variant = "splatPar"
  /\ Constructed
  /\ alloc = NoAlloc
  /\ pipe = NoPipe
  /\ acc = NoAcc
  /\ cube = NoCube
  /\ par \in { SplatScene(s, sc[1], SitesPerAxis, sc[2]) : s \in {"i32", "u32"}, sc \in SplatScenes }

\* the next atomicAdd of invocation i
AtomicAddVoxel(i) ==
  /\ variant = "splatPar"
  /\ i \in DOMAIN par.adds
  /\ par.next[i] <= Len(par.adds[i])
  /\ LET a == par.adds[i][par.next[i]]
     IN  par' = [par EXCEPT
                   !.next[i] = par.next[i] + 1,
                   !.voxels = IF a.buf = 0
                              THEN [par.voxels EXCEPT ![a.idx] = atomicAddCell(par.voxels[a.idx], a.v)]
                              ELSE par.voxels,
                   !.voxelColors =
                      IF a.buf = 0 THEN par.voxelColors
                      ELSE [par.voxelColors EXCEPT
                              ![a.idx] = [k \in 1..3 |->
                                 IF k = a.buf THEN atomicAddCell(par.voxelColors[a.idx][k], a.v)
                                 ELSE par.voxelColors[a.idx][k]]]]
  /\ UNCHANGED parFrame

NextSplatPar == \E i \in 1..Len(Lattice) : AtomicAddVoxel(i)

SpecSplatPar == InitSplatPar /\ [][NextSplatPar]_vars

\* ====================================================================
\* The buffer objects of one MeshReconstructor over the life of the component
\* that owns it: rebuilds that do not wait for one another, and the unmount
\* cleanup.  Buffer contents are left out; an object is the pair <<field, n>>
\* of the field it was assigned to and the number of the setPointCloud call
\* that created it.
MaxRebuilds == 3

\* destroyBuffers(): destroy what the data fields point to, then null them
destroyBufferObjects(h) ==
  [h EXCEPT !.live = h.live \ { <<f, h.refs[f]>> : f \in DataBufferFields },
            !.refs = [f \in BufferFields |-> IF f \in DataBufferFields THEN 0 ELSE h.refs[f]]]

\* setPointCloud(): destroyBuffers(), then one createBuffer per field
createBufferObjects(m, h) ==
  IF ~m.initialized \/ ~m.device THEN h
  ELSE LET d == destroyBufferObjects(h)
           n == h.created + 1
       IN  [d EXCEPT !.created = n,
                     !.refs = [f \in BufferFields |-> n],
                     !.live = d.live \cup { <<f, n>> : f \in BufferFields }]

\* destroy(): destroyBuffers(), then the two table buffers the fields point to
destroyAllObjects(h) ==
  LET d == destroyBufferObjects(h)
  IN  [d EXCEPT !.live = d.live \ { <<f, d.refs[f]>> : f \in TableBufferFields },
                !.refs = [f \in BufferFields |-> 0]]

InitLife ==
  /\ variant = "life"
  /\ Constructed
  /\ alloc = NoAlloc
  /\ pipe = NoPipe
  /\ acc = NoAcc
  /\ cube = NoCube
  /\ par = NoPar

lifeFrame ==
  <<variant, gpu, call, log, initResult, epoch, cpu, cpuIn, cpuOut, cpuPrevOut,
    pipe, acc, cube, par, alloc>>

\* initReconstructor(): the instance is kept only when init() succeeded
LifeInit(outcome, adapterMax) ==
  /\ variant = "life" /\ heap.mounted /\ ~mr.initialized /\ ~mr.device
  /\ mr' = init(mr, outcome, adapterMax)
  /\ UNCHANGED heap /\ UNCHANGED lifeFrame

\* reconstructMesh() / rebuildMesh(): setPointCloud, then reconstruct() up to
\* its first await; a rebuild still suspended is not waited for
LifeRebuild ==
  /\ variant = "life" /\ heap.mounted /\ mr.initialized
  /\ heap.created < MaxRebuilds
  /\ LET h == createBufferObjects(mr, heap)
     IN  heap' = IF h.refs["pointsBuffer"] = 0 THEN h
                 ELSE [h EXCEPT !.calls = Append(h.calls, [bufs |-> h.created, pc |-> "awaitCount", result |-> "pending"])]
  /\ UNCHANGED mr /\ UNCHANGED lifeFrame

\* countReadbackBuffer.mapAsync resolves: read the count, return the empty
\* Result or submit the copy and await readbackBuffer.mapAsync
LifeCountMapped(i, countData) ==
  /\ variant = "life" /\ i \in 1..Len(heap.calls)
  /\ heap.calls[i].pc = "awaitCount"
  /\ <<"countReadbackBuffer", heap.calls[i].bufs>> \in heap.live
  /\ heap' = [heap EXCEPT !.calls[i] =
                  IF countData = 0 THEN [@ EXCEPT !.pc = "returned", !.result = "empty"]
                  ELSE [@ EXCEPT !.pc = "awaitVertex"]]
  /\ UNCHANGED mr /\ UNCHANGED lifeFrame

\* readbackBuffer.mapAsync resolves: unpack and return
LifeVertexMapped(i) ==
  /\ variant = "life" /\ i \in 1..Len(heap.calls)
  /\ heap.calls[i].pc = "awaitVertex"
  /\ <<"readbackBuffer", heap.calls[i].bufs>> \in heap.live
  /\ heap' = [heap EXCEPT !.calls[i] = [@ EXCEPT !.pc = "returned", !.result = "mesh"]]
  /\ UNCHANGED mr /\ UNCHANGED lifeFrame

\* the awaited buffer was destroyed: destroy() unmaps it, which rejects the
\* pending mapAsync promise, and the await throws
LifeMapAborted(i) ==
  /\ variant = "life" /\ i \in 1..Len(heap.calls)
  /\ \/ /\ heap.calls[i].pc = "awaitCount"
        /\ <<"countReadbackBuffer", heap.calls[i].bufs>> \notin heap.live
     \/ /\ heap.calls[i].pc = "awaitVertex"
        /\ <<"readbackBuffer", heap.calls[i].bufs>> \notin heap.live
  /\ heap' = [heap EXCEPT !.calls[i] = [@ EXCEPT !.pc = "threw", !.result = "error"]]
  /\ UNCHANGED mr /\ UNCHANGED lifeFrame

\* the effect cleanup of the component: reconstructorRef.current.destroy()
Unmount ==
  /\ variant = "life" /\ heap.mounted
  /\ heap' = [(IF mr.initialized THEN destroyAllObjects(heap) ELSE heap) EXCEPT !.mounted = FALSE]
  /\ UNCHANGED mr /\ UNCHANGED lifeFrame

NextLife ==
  \/ \E o \in InitOutcomes \cup {"ok"}, a \in AdapterMaxBufferSizes : LifeInit(o, a)
  \/ LifeRebuild
  \/ \E i \in 1..MaxRebuilds, n \in 0..1 : LifeCountMapped(i, n)
  \/ \E i \in 1..MaxRebuilds : LifeVertexMapped(i)
  \/ \E i \in 1..MaxRebuilds : LifeMapAborted(i)
  \/ Unmount

SpecLife == InitLife /\ [][NextLife]_vars

\* ====================================================================
\* The vertex-buffer sizing of setPointCloud, on the grid resolutions of the
\* UI slider and the buffer limits of several adapters.
MinSliderRes == 32

MaxSliderRes == 256

SliderStep == 16

SliderResolutions ==
  { n \in MinSliderRes..MaxSliderRes : (n - MinSliderRes) % SliderStep = 0 }

\* adapter.limits.maxBufferSize: 256 MiB (the WebGPU default), 384 MiB, 512 MiB,
\* 768 MiB, 1 GiB, 2 GiB - 1
AdapterLimits ==
  AdapterMaxBufferSizes
    \cup {384 * 1024 * 1024, 512 * 1024 * 1024, 768 * 1024 * 1024, 1024 * 1024 * 1024}

InitAlloc ==
  /\ variant = "alloc"
  /\ Constructed
  /\ pipe = NoPipe
  /\ acc = NoAcc
  /\ cube = NoCube
  /\ par = NoPar
  /\ alloc \in { [made |-> FALSE, gridRes |-> n,
                  maxBufferSize |-> init(NewMeshReconstructor, "ok", a).maxBufferSize] :
                   n \in SliderResolutions \cup GridResolutions, a \in AdapterLimits }

\* setPointCloud, lines "vertex output": the sizes of vertexBuffer and
\* readbackBuffer and this.maxTriangleCount
SizeVertexBuffers ==
  /\ variant = "alloc" /\ ~alloc.made
  /\ LET cap == MaxTriangleCount(alloc.gridRes, alloc.maxBufferSize)
     IN  alloc' = [alloc EXCEPT !.made = TRUE] @@
                  [vertexBufferSize |-> cap.actualBufferSize,
                   readbackBufferSize |-> cap.actualBufferSize,
                   maxTriangleCount |-> cap.maxTriangleCount]
  /\ UNCHANGED <<variant, mr, gpu, call, log, initResult, epoch, cpu, cpuIn, cpuOut,
                 cpuPrevOut, pipe, acc, cube, par, heap>>

NextAlloc == SizeVertexBuffers

SpecAlloc == InitAlloc /\ [][NextAlloc]_vars

\* ====================================================================
\* Properties
Range(s) == {s[i] : i \in 1..Len(s)}

IsPrefix(s, t) == Len(s) <= Len(t) /\ \A i \in 1..Len(s) : s[i] = t[i]

\* a reconstruct() call that ran the pipeline has returned its Result
GpuReturned == variant = "gpu" /\ call.pc = "returned" /\ call.result # NullResult

CpuReturned == variant = "cpu" /\ cpuOut # NoCall

\* C1: the triangleCount a GPU reconstruct returns is min(counter, capacity):
\* never above the maxTriangleCount of the last setPointCloud, and a counter
\* above the capacity still yields a Result, not null
C1_CountClampedToCapacity ==
  (variant = "gpu" /\ call.pc = "returned" /\ "readCount" \in Range(log)) =>
     /\ call.result # NullResult
     /\ call.result.triangleCount = Min2(gpu.triangleCount, mr.maxTriangleCount)
     /\ call.result.triangleCount <= mr.maxTriangleCount

C1_Witness ==
  /\ GpuReturned
  /\ gpu.triangleCount > mr.maxTriangleCount
  /\ call.result.triangleCount = mr.maxTriangleCount

\* C2: every Result, GPU or CPU, has positions, normals and colors of length
\* triangleCount * 9
C2_ArrayLengths ==
  /\ GpuReturned =>
       /\ Len(call.result.positions) = call.result.triangleCount * 9
       /\ Len(call.result.normals) = call.result.triangleCount * 9
       /\ Len(call.result.colors) = call.result.triangleCount * 9
  /\ CpuReturned =>
       /\ Len(cpuOut.positions) = cpuOut.triangleCount * 9
       /\ Len(cpuOut.normals) = cpuOut.triangleCount * 9
       /\ Len(cpuOut.colors) = cpuOut.triangleCount * 9

C2_Witness ==
  /\ GpuReturned
  /\ call.result.triangleCount >= 2
  /\ Len(call.result.normals) = 9 * call.result.triangleCount

\* C3: a reconstruction of an empty cloud (count = 0) has triangleCount = 0,
\* whatever isoValue, splatRadius and grid resolution are
C3_EmptyCloudNoTriangles ==
  /\ (GpuReturned /\ gpu.numPoints = 0) => call.result.triangleCount = 0
  /\ (CpuReturned /\ Count(cpuIn.cloud) = 0) => cpuOut.triangleCount = 0

C3_Witness ==
  /\ CpuReturned
  /\ Count(cpuIn.cloud) = 0
  /\ cpuIn.isoValue < 0
  /\ cpuOut.triangleCount = 0

\* C4: when the counter read back is 0, reconstruct returns the empty Result
\* and never copies or maps the vertex buffer
C4_ZeroCountSkipsVertexReadback ==
  (variant = "gpu" /\ call.pc # "idle" /\ "readCount" \in Range(log) /\ call.countData = 0) =>
     /\ call.pc = "returned"
     /\ call.result = EmptyResult
     /\ "copyVertices" \notin Range(log)
     /\ "readVertices" \notin Range(log)
     /\ gpu.queue = <<>>

C4_Witness ==
  /\ GpuReturned
  /\ "march" \in Range(log)
  /\ gpu.numPoints > 0
  /\ call.countData = 0
  /\ call.result = EmptyResult

\* C5: a failed init() returns false and leaves initialized false; while the
\* instance is not initialized no buffer exists, no GPU work is queued or run,
\* and reconstruct returns null
C5_FailedInitIsInert ==
  /\ initResult = "false" => ~mr.initialized
  /\ (variant = "gpu" /\ ~mr.initialized) =>
       /\ ~mr.pointsBuffer
       /\ gpu = NoBuffers
       /\ log = <<>>
       /\ call.pc \notin InFlight
       /\ call.pc = "returned" => call.result = NullResult

C5_Witness ==
  /\ initResult = "false"
  /\ mr.device
  /\ call.pc = "returned"
  /\ call.result = NullResult

\* C6: the steps of a GPU reconstruct run in the order clear, splat,
\* normalize, march, counter readback, vertex readback; the vertex copy is
\* issued only after the counter has been read (a batch rejected by
\* validation runs no pass at all and only the counter is read)
PipelineOrder ==
  <<"clear", "splat", "normalize", "march", "copyCount", "readCount",
    "copyVertices", "readVertices">>

C6_PipelineOrder ==
  \/ IsPrefix(log, PipelineOrder)
  \/ IsPrefix(log, <<"rejected", "readCount">>)

C6_Witness == variant = "gpu" /\ log = PipelineOrder /\ call.pc = "returned"

\* C7: no reconstruction is started on an instance while an earlier
\* reconstruct of that instance has not resolved
C7_OneReconstructionInFlight ==
  [][epoch' # epoch => call.pc \notin InFlight]_vars

\* C8: two CPU reconstruct calls with the same positions, colors, count and
\* parameters return the same Result, whatever was reconstructed before
C8_CpuIdempotent ==
  (variant = "cpu" /\ cpuPrevOut # NoCall) => cpuOut = cpuPrevOut

C8_Witness ==
  /\ variant = "cpu"
  /\ cpuPrevOut # NoCall
  /\ cpuPrevOut.triangleCount >= 1
  /\ cpuOut = cpuPrevOut

\* C9: the grid a reconstruction uses is the bounding box of its points
\* padded by twice the splatRadius the same reconstruction splats with
C9_GridPaddedByCurrentRadius ==
  /\ (variant = "gpu" /\ (call.pc \in InFlight \/ GpuReturned)) =>
       /\ gpu.params.gridMin = PaddedMin(gpu.points, gpu.params.splatRadius)
       /\ gpu.params.gridMax = PaddedMax(gpu.points, gpu.params.splatRadius)
       /\ gpu.mcParams.gridMin = gpu.params.gridMin
       /\ gpu.mcParams.gridMax = gpu.params.gridMax
  /\ CpuReturned =>
       /\ cpu.gridMin = PaddedMin(cpuIn.cloud.positions, cpuIn.splatRadius)
       /\ cpu.gridMax = PaddedMax(cpuIn.cloud.positions, cpuIn.splatRadius)

\* C10: no cell whose centre is within splatRadius of a point lies outside
\* the grid, so the out-of-grid test discards no in-radius contribution
C10_NoSplatClipped ==
  /\ (variant = "gpu" /\ (call.pc \in InFlight \/ GpuReturned)) =>
       Clipped(gpu.points, gpu.params.gridMin, gpu.params.gridMax,
               gpu.gridSize, gpu.params.splatRadius) = {}
  /\ CpuReturned =>
       Clipped(cpuIn.cloud.positions, cpu.gridMin, cpu.gridMax,
               cpuIn.gridSize, cpuIn.splatRadius) = {}

\* ---- properties of the passes
Marched == variant = "passes" /\ pipe.stage = "marched"

Normalized == variant = "passes" /\ pipe.stage \in {"normalized", "marched"}

\* C11: the surface extractor processes exactly the cells (x, y, z) with
\* 0 <= x, y, z <= N - 2, each once, and every corner whose density and
\* colour it reads is a grid site of [0, N-1]^3
C11_CellsAndReadsInGrid ==
  Marched =>
    LET N == pipe.N
        cells == [k \in 1..Len(pipe.cells) |-> pipe.cells[k].cell]
    IN  /\ Range(cells) = (0..(N - 2)) \X (0..(N - 2)) \X (0..(N - 2))
        /\ Len(cells) = Cardinality(Range(cells))
        /\ \A k \in 1..Len(cells) : \A i \in 1..8 : InGrid(Corner(cells[k], i), N)

C11_Witness ==
  /\ Marched
  /\ pipe.shader = "u32"
  /\ pipe.N = 3
  /\ Len(pipe.cells) = 8
  /\ \E k \in 1..Len(pipe.cells) : pipe.cells[k].emitted > 0

\* the triangle counter after the march
TriangleCounter == IF pipe.shader = "cpu" THEN pipe.result.triangleCount ELSE pipe.g.triangleCount

ZeroField == \A idx \in DOMAIN pipe.field.density : pipe.field.density[idx] = 0

\* C12: a cell whose eight corners are on the same side of isoValue (cube
\* index 0 or 255) emits no triangle and leaves the counter alone, the
\* counter being the number of triangles the other cells emitted; a density
\* field that is zero everywhere with isoValue > 0 gives a counter of 0
C12_UniformCellsEmitNothing ==
  Marched =>
    /\ \A k \in 1..Len(pipe.cells) :
         pipe.cells[k].cubeIndex \in {0, 255} => pipe.cells[k].emitted = 0
    /\ TriangleCounter =
         SeqSum([k \in 1..Len(pipe.cells) |->
                   IF pipe.cells[k].cubeIndex \in {0, 255} THEN 0 ELSE pipe.cells[k].emitted])
    /\ (ZeroField /\ pipe.isoValue > 0) => TriangleCounter = 0

C12_Witness ==
  /\ Marched
  /\ pipe.shader = "u32"
  /\ Count(pipe.cloud) = 1
  /\ ZeroField
  /\ pipe.isoValue > 0
  /\ \A k \in 1..Len(pipe.cells) : pipe.cells[k].cubeIndex = 255
  /\ TriangleCounter = 0

\* the voxelizer's output of the implementations that measure the radius in
\* grid cells (CPUMarchingCubes and the signed shader set)
Splatted ==
  /\ variant = "passes"
  /\ \/ pipe.shader = "cpu" /\ pipe.stage \in {"normalized", "marched"}
     \/ pipe.shader = "i32" /\ pipe.stage \in {"splatted", "normalized", "marched"}

CellWeight(idx) == IF pipe.shader = "cpu" THEN pipe.field.density[idx] ELSE pipe.g.voxels[idx]

NonZeroCells == {idx \in 0..(GridCount(pipe.N) - 1) : CellWeight(idx) # 0}

VertexPositions ==
  IF pipe.shader = "cpu"
  THEN [j \in 1..(Len(pipe.result.positions) \div 3) |->
          <<pipe.result.positions[3 * j - 2], pipe.result.positions[3 * j - 1],
            pipe.result.positions[3 * j]>>]
  ELSE [j \in 1..(3 * Min2(pipe.g.triangleCount, Len(pipe.g.vertices) \div 3)) |->
          pipe.g.vertices[j].position]

\* number of cells the extractor lays along an axis of the grid box
CellsPerAxis == IF pipe.shader = "u32" THEN pipe.N - 1 ELSE pipe.N

\* v lies in the box of cell c (positions in 1/(LenDen * CellsPerAxis * VertFP))
InCellBox(v, c) ==
  \A a \in 1..3 :
    LET lo == pipe.gridMin[a] * CellsPerAxis * VertFP
                + c[a] * (pipe.gridMax[a] - pipe.gridMin[a]) * VertFP
    IN  lo <= v[a] /\ v[a] <= lo + (pipe.gridMax[a] - pipe.gridMin[a]) * VertFP

\* C14: every vertex position of a mesh lies inside [gridMin, gridMax] on the
\* three axes, being a point of an edge of one of the cells processed
C14_VerticesInsideGrid ==
  Marched =>
    \A j \in 1..Len(VertexPositions) :
      /\ \A a \in 1..3 :
           /\ pipe.gridMin[a] * CellsPerAxis * VertFP <= VertexPositions[j][a]
           /\ VertexPositions[j][a] <= pipe.gridMax[a] * CellsPerAxis * VertFP
      /\ \E k \in 1..Len(pipe.cells) :
           pipe.cells[k].emitted > 0 /\ InCellBox(VertexPositions[j], pipe.cells[k].cell)

C14_Witness ==
  /\ Marched
  /\ pipe.shader = "i32"
  /\ pipe.N = 3
  /\ Len(VertexPositions) >= 6
  /\ \E j \in 1..Len(VertexPositions) : \E a \in 1..3 :
       VertexPositions[j][a] % ((pipe.gridMax[a] - pipe.gridMin[a]) * VertFP) # 
         (pipe.gridMin[a] * CellsPerAxis * VertFP) % ((pipe.gridMax[a] - pipe.gridMin[a]) * VertFP)

\* the accumulated weight of a cell and the normalizer's test on it
RawWeight(idx) == IF pipe.shader = "cpu" THEN pipe.field.density[idx] ELSE pipe.g.voxels[idx]

ExceedsGuard(idx) ==
  IF pipe.shader = "u32" THEN RawWeight(idx) * 1000 > DENSITY_SCALE ELSE RawWeight(idx) > 0

GrayVec == [k \in 1..3 |-> Gray]

\* C15: a cell's colour is a quotient only when its weight exceeds the guard;
\* every other cell, in particular every cell without contribution, is
\* (0.5, 0.5, 0.5), and no colour is the outcome of a division by zero
C15_NormalizerGuardsDivision ==
  Normalized =>
    \A idx \in 0..(GridCount(pipe.N) - 1) :
      /\ ~ExceedsGuard(idx) => pipe.field.color[idx] = GrayVec
      /\ RawWeight(idx) = 0 => pipe.field.color[idx] = GrayVec
      /\ \A k \in 1..3 : pipe.field.color[idx][k] \notin {NaN, Infinity, -Infinity}

C15_Witness ==
  /\ Normalized
  /\ pipe.shader = "u32"
  /\ pipe.cloud.colors.present
  /\ \E idx \in 0..(GridCount(pipe.N) - 1) : RawWeight(idx) = 0 /\ pipe.field.color[idx] = GrayVec
  /\ \E idx \in 0..(GridCount(pipe.N) - 1) : ExceedsGuard(idx) /\ pipe.field.color[idx] # GrayVec

\* C16: the density cell never overflows: after any number of points up to
\* MaxPointCount it holds the exact sum of the quantized contributions, below
\* 2^31 in the signed cell and below 2^32 in the unsigned one
C16_AccumulatorNeverOverflows ==
  variant = "accumulator" =>
    /\ acc.cell = acc.sum
    /\ acc.shader = "i32" => acc.sum.hi < HalfWord \div 2
    /\ acc.shader = "u32" => acc.sum.hi < HalfWord


\* C17: a setPointCloud with the grid resolution of the previous call keeps
\* the grid and output buffers (what they hold stays until a pass overwrites
\* it; a recreated buffer is zero-filled), only another resolution recreates
C17_BuffersKeptUnlessResolutionChanged ==
  [][\A cloud \in Clouds, n \in GridResolutions :
       (SetPointCloud(cloud, n) /\ mr.pointsBuffer /\ n = mr.gridSize) =>
         /\ gpu'.vertices = gpu.vertices
         /\ gpu'.voxels = gpu.voxels
         /\ gpu'.density = gpu.density
         /\ gpu'.normalizedColors = gpu.normalizedColors]_vars

\* the vertex colours of the mesh the march produced
VertexColors ==
  IF pipe.shader = "cpu"
  THEN [j \in 1..(Len(pipe.result.colors) \div 3) |->
          <<pipe.result.colors[3 * j - 2], pipe.result.colors[3 * j - 1],
            pipe.result.colors[3 * j]>>]
  ELSE [j \in 1..(3 * Min2(pipe.g.triangleCount, Len(pipe.g.vertices) \div 3)) |->
          pipe.g.vertices[j].color]

\* (0.5, 0.5, 0.5) up to the truncation of the quantized colour sums
NearGray(c) == \A k \in 1..3 : Abs(c[k] - Gray) <= COLOR_SCALE \div 50

\* C18: without a colors input every point counts as (0.5, 0.5, 0.5): every
\* cell colour and every vertex colour is (0.5, 0.5, 0.5), on the device and
\* in CPUMarchingCubes alike
C18_NullColorsAreGray ==
  (Normalized /\ ~pipe.cloud.colors.present) =>
    /\ \A idx \in 0..(GridCount(pipe.N) - 1) : NearGray(pipe.field.color[idx])
    /\ Marched => \A j \in 1..Len(VertexColors) : NearGray(VertexColors[j])

\* C19: after the normalize stage every cell's density d satisfies
\* 0 <= d < 1, however many points contributed to the cell
C19_DensityBelowOne ==
  Normalized =>
    \A idx \in 0..(GridCount(pipe.N) - 1) :
      0 <= pipe.field.density[idx] /\ pipe.field.density[idx] < FP_SCALE

\* the bits of the corners whose density equals isoValue
EqualMask == SeqSum([i \in 1..8 |-> IF cube.cubeValues[i] = cube.isoValue THEN Pow2(i - 1) ELSE 0])

\* C20 as stated: the 'density < isoValue' index is 255 minus the
\* 'density > isoValue' index for every corner assignment
C20_IndicesComplementary ==
  (variant = "cubeIndex" /\ cube.made) => cube.below = 255 - cube.above

\* C20 amended: the two indices are complementary when no corner density
\* equals isoValue; in general they sum to 255 minus the bits of the corners
\* that equal isoValue, which neither rule sets
C20_ComplementaryOffTheIsoValue ==
  (variant = "cubeIndex" /\ cube.made) =>
    /\ cube.above + cube.below + EqualMask = 255
    /\ EqualMask = 0 => cube.below = 255 - cube.above

C20_Witness ==
  /\ variant = "cubeIndex"
  /\ cube.made
  /\ EqualMask = 0
  /\ cube.above \notin {0, 255}
  /\ cube.below = 255 - cube.above

\* ====================================================================
\* C21: when count = 0, reconstruct returns the empty result immediately: no
\* clear/splat, normalize or march stage is executed and no grid or output
\* buffer is allocated for the call
Stages == {"clear", "splat", "normalize", "march"}

C21_EmptyCloudReturnsImmediately ==
  (variant = "gpu" /\ mr.pointsBuffer /\ mr.numPoints = 0 /\ call.pc # "idle") =>
    /\ call.pc = "returned" /\ call.result = EmptyResult
    /\ \A i \in 1..Len(log) : log[i] \notin Stages
    /\ gpu.queue = <<>>
    /\ gpu.voxels = <<>> /\ gpu.density = <<>> /\ gpu.vertices = <<>>

\* C22: in the march pass, under any interleaving of the invocations, every
\* atomicAdd on the triangle counter returns a different index, a triangle is
\* stored only when its three vertex indices are below the length of the
\* vertex buffer (also when the counter overshoots), no slot is stored twice,
\* and when the pass is over every slot below min(counter, capacity) has been
\* stored exactly once
PassOver == \A k \in DOMAIN par.emits : par.next[k] > par.emits[k]

C22_SlotsDisjointAndInBounds ==
  par.pass = "marchSlots" =>
    /\ \A i, j \in 1..Len(par.returned) : i # j => par.returned[i] # par.returned[j]
    /\ \A i \in DOMAIN par.writes :
         /\ par.writes[i] <= 1
         /\ par.writes[i] > 0 => i * 3 + 2 < par.arrayLength
    /\ PassOver =>
         \A i \in 0..(Min2(par.triangleCount, par.maxTriangleCount) - 1) : par.writes[i] = 1

C22_Witness ==
  /\ par.pass = "marchSlots"
  /\ PassOver
  /\ par.triangleCount > par.maxTriangleCount
  /\ par.writes[par.maxTriangleCount - 1] = 1

\* C23: for every cubeIndex in 0..255 the run of edge numbers of its triTable
\* entry (up to the -1 terminator) has at most 15 elements, a multiple of 3,
\* each in 0..11 and each with its bit set in edgeTable[cubeIndex]; so a cell
\* emits at most 5 triangles, all from vertices interpolated for the cell
C23_TriTableWithinEdgeTable ==
  (variant = "tables" /\ cube.made) =>
    /\ Len(edgeTable) = 256 /\ Len(triTable) = 256
    /\ Len(cube.triangles) <= 15
    /\ Len(cube.triangles) % 3 = 0
    /\ Len(cube.triangles) \div 3 <= 5
    /\ \A i \in 1..Len(cube.triangles) :
         /\ cube.triangles[i] \in 0..11
         /\ BitSet(cube.edges, cube.triangles[i])

C23_Witness ==
  /\ variant = "tables" /\ cube.made
  /\ Len(cube.triangles) = 15
  /\ \A i \in 1..15 : BitSet(cube.edges, cube.triangles[i])

\* C24: (CPUMarchingCubes and the signed shader set) an edge vertex or colour
\* is a corner's, with no division, when isoValue is within 1e-5 of a corner
\* density or the two densities are within 1e-5 of each other, and an
\* interpolation that divides has v1 # v2; only triangles with a non-zero
\* cross product are emitted, and a discarded triangle takes no slot and does
\* not count: the slots below triangleCount hold emitted triangles, the slots
\* from triangleCount on are untouched, and triangleCount is the number of
\* triangles emitted cell by cell
Snaps(v1, v2, iso) == Tiny(iso - v1) \/ Tiny(iso - v2) \/ Tiny(v1 - v2)

ActiveEdges(cell) ==
  LET cv == CubeValues(pipe.field.density, cell, pipe.N)
  IN  {e \in 0..11 : BitSet(edgeTable[cubeIndexOf(cv, pipe.isoValue) + 1], e)}

EdgeGuarded(cell, e) ==
  LET cv == CubeValues(pipe.field.density, cell, pipe.N)
      a == edgeVertices[e + 1][1] + 1
      b == edgeVertices[e + 1][2] + 1
      p1 == Array(cubePosOf(Corner(cell, a), pipe.gridMin, pipe.gridMax, pipe.N))
      p2 == Array(cubePosOf(Corner(cell, b), pipe.gridMin, pipe.gridMax, pipe.N))
      c1 == getColor(pipe.field.color, Corner(cell, a), pipe.N)
      c2 == getColor(pipe.field.color, Corner(cell, b), pipe.N)
      p == Array(interpolateVertex(p1, p2, cv[a], cv[b], pipe.isoValue))
      c == Array(interpolateColor(c1, c2, cv[a], cv[b], pipe.isoValue))
  IN  IF Snaps(cv[a], cv[b], pipe.isoValue)
      THEN p \in {p1, p2} /\ c \in {Array(c1), Array(c2)}
      ELSE cv[a] # cv[b]

EmittedTotal == SeqSum([k \in 1..Len(pipe.cells) |-> pipe.cells[k].emitted])

TrianglesOfThisCall ==
  Len(MarchTriangles([density |-> gpu.density, color |-> gpu.normalizedColors],
                     gpu.mcParams.isoValue, gpu.mcParams.gridMin, gpu.mcParams.gridMax,
                     gpu.mcParams.gridSize))

C25_CounterResetPerCall ==
  (variant = "gpu" /\ call.pc \in InFlight \cup {"returned"} /\ "march" \in Range(log)) =>
    /\ gpu.triangleCount = TrianglesOfThisCall
    /\ "readCount" \in Range(log) => call.countData = TrianglesOfThisCall

\* the march of a second reconstruct on the same buffers: the counter read
\* back by the call before is still in the readback buffer
C25_Witness ==
  /\ variant = "gpu" /\ call.pc = "awaitCount"
  /\ "march" \in Range(log) /\ "copyCount" \notin Range(log)
  /\ gpu.countReadback > 0
  /\ gpu.triangleCount = gpu.countReadback

\* ---------------------------------------------------------------- C26
\* the sum of the atomicAdds of all invocations on cell idx of accumulator buf
\* (0 density, 1..3 colour channels)
Added(buf, idx) ==
  SeqSum([i \in 1..Len(par.adds) |->
            SeqSum([j \in 1..Len(par.adds[i]) |->
                      IF par.adds[i][j].buf = buf /\ par.adds[i][j].idx = idx
                      THEN par.adds[i][j].v ELSE 0])])

SplatOver == \A i \in 1..Len(par.adds) : par.next[i] > Len(par.adds[i])

\* C26: starting from the cleared grid, whatever the order in which the
\* invocations perform their atomicAdds, once the splat pass is over every
\* density and colour accumulator holds the sum of the quantized contributions
\* of all points that reach the cell, which is also what the points splatted
\* one after another give.
C26_SplatSumIsOrderIndependent ==
  (variant = "splatPar" /\ par.pass = "splat" /\ SplatOver) =>
    /\ \A idx \in DOMAIN par.voxels :
         /\ par.voxels[idx] = Added(0, idx)
         /\ \A k \in 1..3 : par.voxelColors[idx][k] = Added(k, idx)
    /\ par.voxels = par.sequential.voxels
    /\ par.voxelColors = par.sequential.voxelColors

\* the pass is over and some cell was reached by two points
C26_Witness ==
  /\ variant = "splatPar" /\ par.pass = "splat"
  /\ SplatOver
  /\ \E idx \in DOMAIN par.voxels :
       Cardinality({ i \in 1..Len(par.adds) :
                       \E j \in 1..Len(par.adds[i]) :
                         par.adds[i][j].buf = 0 /\ par.adds[i][j].idx = idx }) >= 2

\* ---------------------------------------------------------------- C27
\* C27: while a reconstruct call is suspended at its counter or vertex
\* mapAsync, the buffers it was submitted on are still alive and still the
\* ones the fields of the instance point to: no setPointCloud, destroyBuffers
\* or destroy has taken effect on them since the submit.
C27_SuspendedCallKeepsItsBuffers ==
  variant = "life" =>
    \A i \in 1..Len(heap.calls) :
      heap.calls[i].pc \in InFlight =>
        \A f \in DataBufferFields :
          /\ <<f, heap.calls[i].bufs>> \in heap.live
          /\ heap.refs[f] = heap.calls[i].bufs

\* ---------------------------------------------------------------- C28
\* C28: once destroy() has run, every buffer object the instance ever
\* created, the edge-table and triangle-table buffers of every setPointCloud
\* call included, has been destroyed.
C28_DestroyLeavesNoLiveBuffer ==
  (variant = "life" /\ ~heap.mounted) => heap.live = {}

\* ---------------------------------------------------------------- C29
\* the first n triangles of a vertex buffer, each with its three positions,
\* its normal and its three colours
TrianglesIn(vertices, n) == [i \in 1..n |-> SubSeq(vertices, 3 * i - 2, 3 * i)]

\* the multiset of the elements of a sequence
BagOfSeq(s) ==
  [x \in {s[i] : i \in 1..Len(s)} |-> Cardinality({i \in 1..Len(s) : s[i] = x})]

MarchOver == \A k \in 1..Len(par.items) : par.next[k] > Len(par.items[k])

\* C29: when the march pass emits no more triangles than the vertex buffer
\* holds, then under every interleaving of its invocations the counter ends at
\* the same value and the triangles in the buffer are, as a multiset, the
\* triangles the invocations produce when run one after the other.
C29_TriangleMultisetIsOrderIndependent ==
  (variant = "marchPar" /\ par.pass = "march" /\ MarchOver
     /\ par.sequential.triangleCount * 3 <= Len(par.vertices)) =>
    /\ par.triangleCount = par.sequential.triangleCount
    /\ BagOfSeq(TrianglesIn(par.vertices, par.triangleCount))
         = BagOfSeq(TrianglesIn(par.sequential.vertices, par.sequential.triangleCount))
    /\ BagOfSeq(TrianglesIn(par.vertices, par.triangleCount))
         = BagOfSeq([i \in 1..par.triangleCount |->
                       LET t == Flatten(par.items)[i]
                       IN  [j \in 1..3 |-> [position |-> t.v[j], normal |-> t.n, color |-> t.c[j]]]])

\* the pass is over with several triangles, in another order than the
\* sequential run gives
C29_Witness ==
  /\ variant = "marchPar" /\ par.pass = "march" /\ MarchOver
  /\ par.triangleCount >= 2
  /\ par.triangleCount * 3 <= Len(par.vertices)
  /\ par.vertices # par.sequential.vertices

\* ---------------------------------------------------------------- C30
HalfGiB == 512 * 1024 * 1024

\* min(6 N^2 * 2 * 5, N^3)
HeuristicCapacity(N) == Min2(6 * N * N * 2 * 5, N * N * N)

AllowedBytes(maxBufferSize) == Min2(maxBufferSize, HalfGiB)

Clamped(a) == HeuristicCapacity(a.gridRes) * 3 * 48 > AllowedBytes(a.maxBufferSize)

\* C30: the triangle capacity is min(6 N^2 * 2 * 5, N^3), lowered only when
\* capacity * 3 * 48 bytes exceeds min(device maxBufferSize, 512 MiB), and then
\* to floor(allowedBytes / 144); the vertex buffer and the readback buffer have
\* the same size, the bytes of the heuristic capacity or else the allowed
\* bytes, which holds the capacity in whole triangles and not one more.
C30_CapacityAndBufferSizes ==
  (variant = "alloc" /\ alloc.made) =>
    /\ alloc.maxTriangleCount =
         IF Clamped(alloc) THEN AllowedBytes(alloc.maxBufferSize) \div 144
         ELSE HeuristicCapacity(alloc.gridRes)
    /\ alloc.vertexBufferSize =
         IF Clamped(alloc) THEN AllowedBytes(alloc.maxBufferSize)
         ELSE HeuristicCapacity(alloc.gridRes) * 3 * 48
    /\ alloc.readbackBufferSize = alloc.vertexBufferSize
    /\ alloc.maxTriangleCount * 144 <= alloc.vertexBufferSize
    /\ alloc.vertexBufferSize < (alloc.maxTriangleCount + 1) * 144

\* a resolution whose heuristic capacity does not fit the allowed bytes
C30_Witness ==
  /\ variant = "alloc" /\ alloc.made
  /\ Clamped(alloc)
  /\ alloc.maxTriangleCount < HeuristicCapacity(alloc.gridRes)
====
